---- MODULE Spec2Model ----
(***************************************************************************)
(* Model of the leaf-folder audit of bayen-files-checker:                  *)
(* StreamlitMissingFilesDetector (streamlit_missing_files_detector.py).    *)
(* A run_scan walks a directory tree, finds the leaf folders, buckets the  *)
(* files of every leaf (get_file_types), classifies the leaf               *)
(* (check_leaf_folder) and tallies the four category lists                 *)
(* (generate_summary).                                                     *)
(*                                                                         *)
(* File and directory names are sequences of one-character strings, so     *)
(* that str.lower, str.startswith and str.endswith are computed.           *)
(* A directory is named by its path below the scan root: a sequence of     *)
(* directory names; <<>> is the root itself.                               *)
(***************************************************************************)
EXTENDS Integers, Sequences, FiniteSets, TLC

(***************************************************************************)
(* Bounds of the model.                                                    *)
(***************************************************************************)
\* most files in the one folder of the listing family of initial states
MaxFiles == 3
\* most files of one kind in the one folder of the counts family
MaxCount == 2
\* most directories below the root in the tree family
MaxDirs == 2
\* most calls of run_scan on one detector
MaxRuns == 2
\* most entries of an uploaded archive
MaxEntries == 2
\* most archives handled in one session
MaxUploads == 2

(***************************************************************************)
(* Strings.                                                                *)
(***************************************************************************)
\* the capital letters the model's names and texts use, with their small ones
SmallOf ==
    [c \in {"M", "D", "J", "S", "O", "N", "L", "G", "C", "F", "V"} |->
        CASE c = "M" -> "m"
          [] c = "D" -> "d"
          [] c = "J" -> "j"
          [] c = "S" -> "s"
          [] c = "O" -> "o"
          [] c = "N" -> "n"
          [] c = "L" -> "l"
          [] c = "G" -> "g"
          [] c = "C" -> "c"
          [] c = "F" -> "f"
          [] c = "V" -> "v"]

\* str.lower on one character
LowerChar(c) == IF c \in DOMAIN SmallOf THEN SmallOf[c] ELSE c

\* str.lower
Lower(s) == [i \in 1..Len(s) |-> LowerChar(s[i])]

\* str.startswith
StartsWith(s, pre) ==
    /\ Len(s) >= Len(pre)
    /\ SubSeq(s, 1, Len(pre)) = pre

\* str.endswith
EndsWith(s, suf) ==
    /\ Len(s) >= Len(suf)
    /\ SubSeq(s, Len(s) - Len(suf) + 1, Len(s)) = suf

RECURSIVE PathParts(_, _, _)
\* Path(path).parts of a relative path: its components between the '/', the
\* empty ones and the '.' ones left out; part is the component being read
PathParts(path, i, part) ==
    LET kept == IF part = <<>> \/ part = <<".">> THEN <<>> ELSE <<part>>
    IN  IF i > Len(path) THEN kept
        ELSE IF path[i] = "/" THEN kept \o PathParts(path, i + 1, <<>>)
        ELSE PathParts(path, i + 1, Append(part, path[i]))

\* the name of a path taken to be its own text
PathNameAsGiven(path) == path

\* Path(path).name: the last part, '' when there is none
PathName(path) ==
    LET parts == PathParts(path, 1, <<>>)
    IN  IF parts = <<>> THEN <<>> ELSE parts[Len(parts)]

DOT == <<".">>
EXT_JSON == <<".", "j", "s", "o", "n">>
EXT_MD == <<".", "m", "d">>
EXT_LOG == <<".", "l", "o", "g">>

(***************************************************************************)
(* The file system the scan reads.  A listing is a function from the names *)
(* of the regular files of one directory to their sizes in bytes.          *)
(***************************************************************************)
Sizes == {0, 10}

FilePrefixes == {<<>>, DOT}
FileStems == {<<"a">>}
FileExts == {<<>>, EXT_MD, <<".", "M", "D">>, EXT_JSON, <<".", "J", "S", "O", "N">>,
             EXT_LOG, <<".", "L", "O", "G">>, <<".", "t", "x", "t">>}

\* a, a.md, a.MD, a.json, ..., .a, .a.md, ...
FileNames == {p \o s \o e : p \in FilePrefixes, s \in FileStems, e \in FileExts}

RECURSIVE SetsUpTo(_, _)
\* the subsets of S with at most k elements
SetsUpTo(S, k) ==
    IF k = 0 THEN {{}}
    ELSE LET smaller == SetsUpTo(S, k - 1)
         IN  smaller \cup {T \cup {x} : T \in smaller, x \in S}

\* every listing of at most k files named in S
ListingsOver(S, k) == UNION {[T -> Sizes] : T \in SetsUpTo(S, k)}

NoFiles == [n \in {} |-> 0]

Digits == <<"1", "2", "3", "4", "5", "6", "7", "8", "9">>

\* the listing with n files f1<ext> .. fn<ext> of the given size
Numbered(n, ext, size) ==
    [name \in {<<"f", Digits[i]>> \o ext : i \in 1..n} |-> size]

\* the union of two listings with disjoint names
Merge(f, g) ==
    [n \in (DOMAIN f) \cup (DOMAIN g) |-> IF n \in DOMAIN f THEN f[n] ELSE g[n]]

\* a folder with the given numbers of non-empty .md, .json, .log and other
\* files and of zero-byte files
ListingOfCounts(md, json, log, other, empty) ==
    Merge(Numbered(md, EXT_MD, 10),
    Merge(Numbered(json, EXT_JSON, 10),
    Merge(Numbered(log, EXT_LOG, 10),
    Merge(Numbered(other, <<".", "t", "x", "t">>, 10),
          Numbered(empty, <<".", "d", "a", "t">>, 0)))))

(***************************************************************************)
(* Directory trees.  A tree is a prefix-closed set of paths.               *)
(***************************************************************************)
DirNames == {<<"A">>, <<"B">>, <<".", "h">>}

\* Path.name of a directory below the root
BaseName(p) == p[Len(p)]

Parent(p) == SubSeq(p, 1, Len(p) - 1)

\* the subdirectories of p
Children(t, p) == {q \in t : Len(q) = Len(p) + 1 /\ Parent(q) = p}

RECURSIVE TreesUpTo(_)
\* the trees with the root and at most k directories below it
TreesUpTo(k) ==
    IF k = 0 THEN {{<<>>}}
    ELSE LET smaller == TreesUpTo(k - 1)
         IN  smaller \cup UNION {{t \cup {Append(p, d)} : p \in t, d \in DirNames} : t \in smaller}

\* what the folders of the tree family hold
TreeListings ==
    { NoFiles,
      (<<"a">> \o EXT_MD) :> 10,
      (<<"a">> \o EXT_LOG) :> 10 @@ <<"a", ".", "t", "x", "t">> :> 10,
      (<<"a">> \o EXT_MD) :> 10 @@ <<"a", ".", "t", "x", "t">> :> 0 }

\* the names a scan root is given by: data, .data
RootNames == {<<"d", "a", "t", "a">>, <<".", "d", "a", "t", "a">>}

VARIABLES
    root,        \* the selected folder: [kind, name], kind one of missing, file, dir
    tree,        \* the directories at and below the root
    listing,     \* the regular files of every directory of the tree
    results,     \* self.results of the detector
    pc,          \* where run_scan stands: idle, scan, leaves, summary, returned
    leaf_dirs,   \* scan_folder's leaf_dirs
    idx,         \* scan_folder's position in leaf_dirs (from 1)
    classified,  \* the directories check_leaf_folder was called on, in call order
    error,       \* what st.error reported in this run_scan
    unreadable,  \* the directories of the tree whose entries cannot be listed
    vanished,    \* the directories removed between scan_folder's walk and its loop
    cli,         \* the MissingFilesDetector process (detect_missing_files.py)
    simple,      \* the detect_missing_files_simple.py process
    disk,        \* the report files in the working directory
    objects,     \* the result dicts in memory: [heap, self_results, returned]
    tmp,         \* the temporary directories on disk, by the number mkdtemp gave them
    zip,         \* the dashboard session's handling of uploaded archives
    downloads    \* the reports main last built for download from scan_results

\* the state outside the dashboard's detector and the tree it reads
app == <<objects, tmp, zip, downloads>>

beyond == <<cli, simple, disk, app>>

\* the file system the scanners read, and the dashboard's detector
filesystem == <<root, tree, listing, unreadable, vanished>>
dashboard == <<results, pc, leaf_dirs, idx, classified, error>>

vars == <<root, tree, listing, results, pc, leaf_dirs, idx, classified, error,
          unreadable, vanished, beyond>>

\* a file that does not exist; the content of a file that does is the
\* sequence of the chunks written to it
NoFile == [exists |-> FALSE, content |-> <<>>]

CategoryLists == {"empty_folders", "json_only_folders", "folders_with_empty_files", "valid_folders"}

(***************************************************************************)
(* get_file_types                                                          *)
(***************************************************************************)
\* get_file_types matching the extension without str.lower
BucketOfCaseSensitive(file_name, file_size) ==
    LET is_empty == (file_size = 0)
    IN  IF EndsWith(file_name, EXT_JSON)
          THEN IF is_empty THEN "empty_files" ELSE "json_files"
        ELSE IF EndsWith(file_name, EXT_MD)
          THEN IF is_empty THEN "empty_files" ELSE "md_files"
        ELSE IF EndsWith(file_name, EXT_LOG)
          THEN IF is_empty THEN "empty_files" ELSE "log_files"
        ELSE IF ~StartsWith(file_name, DOT)
          THEN IF is_empty THEN "empty_files" ELSE "other_files"
        ELSE ""

\* get_file_types without the size test on files of other extensions
BucketOfNoSizeCheckOther(file_name, file_size) ==
    LET is_empty == (file_size = 0)
    IN  IF EndsWith(Lower(file_name), EXT_JSON)
          THEN IF is_empty THEN "empty_files" ELSE "json_files"
        ELSE IF EndsWith(Lower(file_name), EXT_MD)
          THEN IF is_empty THEN "empty_files" ELSE "md_files"
        ELSE IF EndsWith(Lower(file_name), EXT_LOG)
          THEN IF is_empty THEN "empty_files" ELSE "log_files"
        ELSE IF ~StartsWith(file_name, DOT)
          THEN "other_files"
        ELSE ""

\* get_file_types dropping every hidden file before it looks at the extension
BucketOfHiddenFirst(file_name, file_size) ==
    LET is_empty == (file_size = 0)
    IN  IF StartsWith(file_name, DOT) THEN ""
        ELSE IF is_empty THEN "empty_files"
        ELSE IF EndsWith(Lower(file_name), EXT_JSON) THEN "json_files"
        ELSE IF EndsWith(Lower(file_name), EXT_MD) THEN "md_files"
        ELSE IF EndsWith(Lower(file_name), EXT_LOG) THEN "log_files"
        ELSE "other_files"

\* get_file_types without the size test on .log files
BucketOfLogIgnoresSize(file_name, file_size) ==
    LET is_empty == (file_size = 0)
    IN  IF EndsWith(Lower(file_name), EXT_JSON)
          THEN IF is_empty THEN "empty_files" ELSE "json_files"
        ELSE IF EndsWith(Lower(file_name), EXT_MD)
          THEN IF is_empty THEN "empty_files" ELSE "md_files"
        ELSE IF EndsWith(Lower(file_name), EXT_LOG)
          THEN "log_files"
        ELSE IF ~StartsWith(file_name, DOT)
          THEN IF is_empty THEN "empty_files" ELSE "other_files"
        ELSE ""

\* get_file_types without the filter of system files
BucketOfHiddenCounted(file_name, file_size) ==
    LET is_empty == (file_size = 0)
    IN  IF EndsWith(Lower(file_name), EXT_JSON)
          THEN IF is_empty THEN "empty_files" ELSE "json_files"
        ELSE IF EndsWith(Lower(file_name), EXT_MD)
          THEN IF is_empty THEN "empty_files" ELSE "md_files"
        ELSE IF EndsWith(Lower(file_name), EXT_LOG)
          THEN IF is_empty THEN "empty_files" ELSE "log_files"
        ELSE IF is_empty THEN "empty_files" ELSE "other_files"

\* the bucket one regular file goes to, "" when it goes to none
BucketOf(file_name, file_size) ==
    LET is_empty == (file_size = 0)
    IN  IF EndsWith(Lower(file_name), EXT_JSON)
          THEN IF is_empty THEN "empty_files" ELSE "json_files"
        ELSE IF EndsWith(Lower(file_name), EXT_MD)
          THEN IF is_empty THEN "empty_files" ELSE "md_files"
        ELSE IF EndsWith(Lower(file_name), EXT_LOG)
          THEN IF is_empty THEN "empty_files" ELSE "log_files"
        ELSE IF ~StartsWith(file_name, DOT)
          THEN IF is_empty THEN "empty_files" ELSE "other_files"
        ELSE ""

\* the five buckets of names of one folder
GetFileTypes(files) ==
    [k \in {"json_files", "md_files", "log_files", "other_files", "empty_files"} |->
        {n \in DOMAIN files : BucketOf(n, files[n]) = k}]

(***************************************************************************)
(* check_leaf_folder                                                       *)
(***************************************************************************)
FileCounts(file_types) ==
    [md_files    |-> Cardinality(file_types["md_files"]),
     json_files  |-> Cardinality(file_types["json_files"]),
     log_files   |-> Cardinality(file_types["log_files"]),
     other_files |-> Cardinality(file_types["other_files"]),
     empty_files |-> Cardinality(file_types["empty_files"])]

\* check_leaf_folder with the valid-folder rule tried before the empty-files rule
VerdictValidFirst(file_types) ==
    LET total_files == Cardinality(file_types["json_files"]) + Cardinality(file_types["md_files"])
                       + Cardinality(file_types["log_files"]) + Cardinality(file_types["other_files"])
        empty_files_count == Cardinality(file_types["empty_files"])
    IN  IF total_files = 0 /\ empty_files_count = 0
          THEN [list |-> "empty_folders", issue |-> <<"Completely empty folder">>, severity |-> "high"]
        ELSE IF /\ Cardinality(file_types["json_files"]) > 0
                /\ total_files = Cardinality(file_types["json_files"])
                /\ empty_files_count = 0
          THEN [list |-> "json_only_folders",
                issue |-> <<"Contains only JSON files, missing main content files (.md)">>,
                severity |-> "high"]
        ELSE IF Cardinality(file_types["md_files"]) > 0
          THEN [list |-> "valid_folders", issue |-> <<"Valid folder with content">>, severity |-> "none"]
        ELSE IF empty_files_count > 0
          THEN [list |-> "folders_with_empty_files",
                issue |-> <<"No main content files, contains ", empty_files_count, " empty file(s)">>,
                severity |-> "high"]
        ELSE [list |-> "", issue |-> <<>>, severity |-> ""]

\* check_leaf_folder without its first rule
VerdictNoEmptyRule(file_types) ==
    LET empty_files_count == Cardinality(file_types["empty_files"])
    IN  IF /\ Cardinality(file_types["json_files"]) > 0
           /\ Cardinality(file_types["md_files"]) = 0
           /\ Cardinality(file_types["log_files"]) = 0
           /\ Cardinality(file_types["other_files"]) = 0
           /\ empty_files_count = 0
          THEN [list |-> "json_only_folders",
                issue |-> <<"Contains only JSON files, missing main content files (.md)">>,
                severity |-> "high"]
        ELSE IF empty_files_count > 0
          THEN IF Cardinality(file_types["md_files"]) > 0
                 THEN [list |-> "folders_with_empty_files",
                       issue |-> <<"Folder has content but contains ", empty_files_count, " empty file(s)">>,
                       severity |-> "medium"]
                 ELSE [list |-> "folders_with_empty_files",
                       issue |-> <<"No main content files, contains ", empty_files_count, " empty file(s)">>,
                       severity |-> "high"]
        ELSE IF Cardinality(file_types["md_files"]) > 0
          THEN [list |-> "valid_folders", issue |-> <<"Valid folder with content">>, severity |-> "none"]
        ELSE [list |-> "", issue |-> <<>>, severity |-> ""]

\* the list a leaf is appended to ("" for none), its issue and its severity
Verdict(file_types) ==
    LET total_files == Cardinality(file_types["json_files"]) + Cardinality(file_types["md_files"])
                       + Cardinality(file_types["log_files"]) + Cardinality(file_types["other_files"])
        empty_files_count == Cardinality(file_types["empty_files"])
    IN  IF total_files = 0 /\ empty_files_count = 0
          THEN [list |-> "empty_folders", issue |-> <<"Completely empty folder">>, severity |-> "high"]
        ELSE IF /\ Cardinality(file_types["json_files"]) > 0
                /\ Cardinality(file_types["md_files"]) = 0
                /\ Cardinality(file_types["log_files"]) = 0
                /\ Cardinality(file_types["other_files"]) = 0
                /\ empty_files_count = 0
          THEN [list |-> "json_only_folders",
                issue |-> <<"Contains only JSON files, missing main content files (.md)">>,
                severity |-> "high"]
        ELSE IF empty_files_count > 0
          THEN IF Cardinality(file_types["md_files"]) > 0
                 THEN [list |-> "folders_with_empty_files",
                       issue |-> <<"Folder has content but contains ", empty_files_count, " empty file(s)">>,
                       severity |-> "medium"]
                 ELSE [list |-> "folders_with_empty_files",
                       issue |-> <<"No main content files, contains ", empty_files_count, " empty file(s)">>,
                       severity |-> "high"]
        ELSE IF Cardinality(file_types["md_files"]) > 0
          THEN [list |-> "valid_folders", issue |-> <<"Valid folder with content">>, severity |-> "none"]
        ELSE [list |-> "", issue |-> <<>>, severity |-> ""]

\* self.results after check_leaf_folder(folder_path, relative_path)
\* check_leaf_folder with the valid-folder rule an if of its own, not an elif:
\* a folder with markdown filed by an earlier rule is filed as valid as well
CheckLeafFolderValidToo(res, root_name, relative_path, files) ==
    LET file_types == GetFileTypes(files)
        v == Verdict(file_types)
        folder_info == [path          |-> relative_path,
                        absolute_path |-> <<root_name>> \o relative_path,
                        file_counts   |-> FileCounts(file_types),
                        files         |-> file_types,
                        issue         |-> v.issue,
                        severity      |-> v.severity]
        filed == IF v.list = "" THEN res
                 ELSE [res EXCEPT ![v.list] = Append(@, folder_info)]
    IN  IF v.list # "valid_folders" /\ file_types["md_files"] # {}
          THEN [filed EXCEPT !["valid_folders"] = Append(@, folder_info)]
          ELSE filed

CheckLeafFolder(res, root_name, relative_path, files) ==
    LET file_types == GetFileTypes(files)
        v == Verdict(file_types)
        folder_info == [path          |-> relative_path,
                        absolute_path |-> <<root_name>> \o relative_path,
                        file_counts   |-> FileCounts(file_types),
                        files         |-> file_types,
                        issue         |-> v.issue,
                        severity      |-> v.severity]
    IN  IF v.list = "" THEN res
        ELSE [res EXCEPT ![v.list] = Append(@, folder_info)]

(***************************************************************************)
(* scan_folder: the leaf directories os.walk yields once hidden            *)
(* directories are pruned.  os.scandir's order is not specified, so every  *)
(* order of siblings is possible.                                          *)
(***************************************************************************)
\* the walk without the pruning of hidden directories
UnhiddenAll(t, p) == Children(t, p)

\* dirs[:] = [d for d in dirs if not d.startswith('.')]
Unhidden(t, p) == {q \in Children(t, p) : ~StartsWith(BaseName(q), DOT)}

RECURSIVE LeafOrders(_, _), LeafOrdersOfAll(_, _)
\* os.walk yields nothing for a directory it cannot list (onerror is None)
LeafOrders(t, p) ==
    IF p \in unreadable THEN {<<>>}
    ELSE IF Unhidden(t, p) = {} THEN {<<p>>}
    ELSE LeafOrdersOfAll(t, Unhidden(t, p))

LeafOrdersOfAll(t, S) ==
    IF S = {} THEN {<<>>}
    ELSE UNION {{a \o b : a \in LeafOrders(t, q), b \in LeafOrdersOfAll(t, S \ {q})} : q \in S}

(***************************************************************************)
(* generate_summary                                                        *)
(***************************************************************************)
\* generate_summary leaving the valid folders out of total_scanned_folders
SummaryScannedOmitsValid(res) ==
    [total_empty_folders |-> Len(res["empty_folders"]),
     total_json_only_folders |-> Len(res["json_only_folders"]),
     total_folders_with_empty_files |-> Len(res["folders_with_empty_files"]),
     total_valid_folders |-> Len(res["valid_folders"]),
     total_problematic_folders |->
         Len(res["empty_folders"]) + Len(res["json_only_folders"])
         + Len(res["folders_with_empty_files"]),
     total_scanned_folders |->
         Len(res["empty_folders"]) + Len(res["json_only_folders"])
         + Len(res["folders_with_empty_files"])]

\* generate_summary leaving the folders with empty files out of total_problematic_folders
SummaryProblematicOmitsEmptyFiles(res) ==
    [total_empty_folders |-> Len(res["empty_folders"]),
     total_json_only_folders |-> Len(res["json_only_folders"]),
     total_folders_with_empty_files |-> Len(res["folders_with_empty_files"]),
     total_valid_folders |-> Len(res["valid_folders"]),
     total_problematic_folders |->
         Len(res["empty_folders"]) + Len(res["json_only_folders"]),
     total_scanned_folders |->
         Len(res["empty_folders"]) + Len(res["json_only_folders"])
         + Len(res["folders_with_empty_files"]) + Len(res["valid_folders"])]

\* the six totals
Summary(res) ==
    [total_empty_folders |-> Len(res["empty_folders"]),
     total_json_only_folders |-> Len(res["json_only_folders"]),
     total_folders_with_empty_files |-> Len(res["folders_with_empty_files"]),
     total_valid_folders |-> Len(res["valid_folders"]),
     total_problematic_folders |->
         Len(res["empty_folders"]) + Len(res["json_only_folders"])
         + Len(res["folders_with_empty_files"]),
     total_scanned_folders |->
         Len(res["empty_folders"]) + Len(res["json_only_folders"])
         + Len(res["folders_with_empty_files"]) + Len(res["valid_folders"])]

EmptyDict == [k \in {} |-> 0]

\* self.results, were run_scan to build it with a summary of six zero totals
FreshResultsZeroSummary(root_path) ==
    [root_path |-> root_path,
     empty_folders |-> <<>>,
     json_only_folders |-> <<>>,
     folders_with_empty_files |-> <<>>,
     valid_folders |-> <<>>,
     summary |-> [total_empty_folders |-> 0,
                  total_json_only_folders |-> 0,
                  total_folders_with_empty_files |-> 0,
                  total_valid_folders |-> 0,
                  total_problematic_folders |-> 0,
                  total_scanned_folders |-> 0]]

\* self.results as __init__ and the head of run_scan build it (scan_date, the
\* wall-clock time of the reset, is left out)
FreshResults(root_path) ==
    [root_path |-> root_path,
     empty_folders |-> <<>>,
     json_only_folders |-> <<>>,
     folders_with_empty_files |-> <<>>,
     valid_folders |-> <<>>,
     summary |-> EmptyDict]

(***************************************************************************)
(* Initial states: a detector just constructed, and one of three families  *)
(* of file systems.                                                        *)
(***************************************************************************)
\* no results shown yet
NoDownloads == [shown |-> FALSE, raised |-> "", data |-> <<>>, json |-> <<>>,
                csv_built |-> FALSE, csv |-> <<>>, status |-> <<>>]

\* no archive handled yet
NoUpload == [flow |-> "", outcome |-> "", error |-> "", dir |-> 0, returned |-> 0,
             left |-> {}, cleaned |-> FALSE]

\* MissingFilesDetector.__init__, the head of scan_for_missing_files, a
\* working directory with no report in it, a session with no temp_zip_dir
OutsideIdle ==
    /\ cli = [pc |-> "idle",
              report |-> [empty_folders |-> <<>>, json_only_folders |-> <<>>,
                          summary |-> [k \in {} |-> 0]],
              classified |-> <<>>, warned |-> {}, error |-> "", runs |-> 0]
    /\ simple = [pc |-> "idle",
                 results |-> [empty_folders |-> <<>>, json_only_folders |-> <<>>],
                 classified |-> <<>>, error |-> ""]
    /\ disk = [missing_files_report |-> NoFile, missing_files_summary |-> NoFile]
    /\ objects = [heap |-> (0 :> FreshResults(<<>>)), self_results |-> 0, returned |-> <<>>]
    /\ tmp = [d \in {} |-> 0]
    /\ zip = [temp_zip_dir |-> 0, uploads |-> 0, ended |-> FALSE, last |-> NoUpload]
    /\ downloads = NoDownloads

\* the same, over a tree nobody changes during the scan
BeyondIdle == OutsideIdle /\ vanished = {}

Detector ==
    /\ results = FreshResults(<<>>)
    /\ pc = "idle"
    /\ leaf_dirs = <<>>
    /\ idx = 1
    /\ classified = <<>>
    /\ error = ""

\* a tree of folders, each holding one of TreeListings; or no folder at the path
InitTree ==
    /\ root \in [kind : {"missing", "file", "dir"}, name : RootNames]
    /\ tree \in IF root.kind = "dir" THEN TreesUpTo(MaxDirs) ELSE {{}}
    /\ listing \in [tree -> TreeListings]
    /\ unreadable = {}
    /\ Detector
    /\ BeyondIdle

\* one folder with any files
InitListing ==
    /\ root = [kind |-> "dir", name |-> <<"d", "a", "t", "a">>]
    /\ tree = {<<>>}
    /\ listing \in [tree -> ListingsOver(FileNames, MaxFiles)]
    /\ unreadable = {}
    /\ Detector
    /\ BeyondIdle

\* one folder with any number of files of each kind
InitCounts ==
    /\ root = [kind |-> "dir", name |-> <<"d", "a", "t", "a">>]
    /\ tree = {<<>>}
    /\ \E md \in 0..MaxCount, json \in 0..MaxCount, log \in 0..MaxCount,
          other \in 0..MaxCount, empty \in 0..MaxCount :
          listing = [p \in tree |-> ListingOfCounts(md, json, log, other, empty)]
    /\ unreadable = {}
    /\ Detector
    /\ BeyondIdle

Init == InitTree \/ InitListing \/ InitCounts

(***************************************************************************)
(* run_scan, in its steps.                                                 *)
(***************************************************************************)
\* run_scan up to the call of scan_folder: reset, then the two checks of the path
RunScan ==
    /\ pc \in {"idle", "returned"}
    /\ results' = FreshResults(root.name)
    /\ classified' = <<>>
    /\ leaf_dirs' = <<>>
    /\ idx' = 1
    /\ IF root.kind = "missing"
         THEN error' = "Selected folder does not exist" /\ pc' = "returned"
       ELSE IF root.kind # "dir"
         THEN error' = "Selected path is not a directory" /\ pc' = "returned"
       ELSE error' = "" /\ pc' = "scan"
    /\ UNCHANGED <<root, tree, listing, unreadable, vanished, beyond>>

\* scan_folder up to its loop: the hidden-name return, then the walk that
\* collects leaf_dirs (the first walk, which fills all_dirs, changes nothing
\* that is read later)
ScanFolder ==
    /\ pc = "scan"
    /\ IF StartsWith(PathName(root.name), DOT)
         THEN leaf_dirs' = <<>> /\ pc' = "summary"
         ELSE /\ leaf_dirs' \in LeafOrders(tree, <<>>)
              /\ pc' = IF leaf_dirs' = <<>> THEN "summary" ELSE "leaves"
    /\ idx' = 1
    /\ UNCHANGED <<root, tree, listing, results, classified, error, unreadable, vanished, beyond>>

\* one turn of scan_folder's loop over leaf_dirs
ScanLeaf ==
    /\ pc = "leaves"
    /\ idx <= Len(leaf_dirs)
    /\ leaf_dirs[idx] \notin vanished
    /\ LET current_dir == leaf_dirs[idx]
       IN  /\ results' = CheckLeafFolder(results, root.name, current_dir, listing[current_dir])
           /\ classified' = Append(classified, current_dir)
    /\ idx' = idx + 1
    /\ pc' = IF idx = Len(leaf_dirs) THEN "summary" ELSE "leaves"
    /\ UNCHANGED <<root, tree, listing, leaf_dirs, error, unreadable, vanished, beyond>>

\* generate_summary and the return of run_scan
GenerateSummary ==
    /\ pc = "summary"
    /\ results' = [results EXCEPT !["summary"] = Summary(results)]
    /\ pc' = "returned"
    /\ UNCHANGED <<root, tree, listing, leaf_dirs, idx, classified, error, unreadable, vanished, beyond>>

Next == RunScan \/ ScanFolder \/ ScanLeaf \/ GenerateSummary

Spec == Init /\ [][Next]_vars

(***************************************************************************)
(* Vocabulary of the properties.                                           *)
(***************************************************************************)
\* the scan has run to its end on a root that is a directory
ScanCompleted == pc = "returned" /\ error = ""

Range(seq) == {seq[i] : i \in 1..Len(seq)}

\* the places (list, position) of the records of directory p
RecordsOf(p) ==
    UNION {{<<l, i>> : i \in {j \in 1..Len(results[l]) : results[l][j].path = p}} :
            l \in CategoryLists}

\* p has exactly one record, in list l with severity s
FiledAs(p, l, s) ==
    /\ Cardinality(RecordsOf(p)) = 1
    /\ \E x \in RecordsOf(p) : x[1] = l /\ results[l][x[2]].severity = s

NameIsHidden(n) == Len(n) > 0 /\ n[1] = "."

\* a directory the walk comes to: neither it nor a directory above it, the
\* root included, has a name that starts with '.'
Visited(p) ==
    /\ ~NameIsHidden(root.name)
    /\ \A i \in 1..Len(p) : ~NameIsHidden(p[i])

\* the leaf folders: visited, and every subdirectory is hidden
LeafFolders ==
    {p \in tree : Visited(p) /\ \A q \in Children(tree, p) : NameIsHidden(BaseName(q))}

HasExt(n, ext) == EndsWith(Lower(n), ext)

\* the files of directory p that satisfy Q(name, size)
FilesWhere(p, Q(_, _)) == {n \in DOMAIN listing[p] : Q(n, listing[p][n])}

IsNonEmptyMd(n, size) == HasExt(n, EXT_MD) /\ size # 0
IsMd(n, size) == HasExt(n, EXT_MD)
IsZeroByte(n, size) == size = 0
\* a file get_file_types puts in some bucket
IsCounted(n, size) ==
    HasExt(n, EXT_JSON) \/ HasExt(n, EXT_MD) \/ HasExt(n, EXT_LOG) \/ ~NameIsHidden(n)
IsCountedZeroByte(n, size) == IsCounted(n, size) /\ size = 0
IsNonEmptyJson(n, size) == HasExt(n, EXT_JSON) /\ size # 0
IsLogOrOther(n, size) ==
    /\ size # 0
    /\ \/ HasExt(n, EXT_LOG)
       \/ ~NameIsHidden(n) /\ ~HasExt(n, EXT_JSON) /\ ~HasExt(n, EXT_MD)

(***************************************************************************)
(* C1.  After a completed run_scan every leaf folder has exactly one       *)
(* record, in exactly one of the four lists, and no other folder has a     *)
(* record.  The scan does not keep this: a leaf that matches none of the   *)
(* four rules gets no record.                                              *)
(***************************************************************************)
C1_EveryLeafFiledOnce ==
    ScanCompleted =>
        /\ \A p \in LeafFolders : Cardinality(RecordsOf(p)) = 1
        /\ \A p \in tree \ LeafFolders : RecordsOf(p) = {}

(***************************************************************************)
(* C2.  check_leaf_folder files a folder by the first matching rule of     *)
(* the priority table over its five counts: all zero -> empty_folders,     *)
(* high; only json -> json_only_folders, high; some empty file ->          *)
(* folders_with_empty_files, medium with markdown and high without;        *)
(* markdown -> valid_folders, none; otherwise no list.                     *)
(***************************************************************************)
TableRule(c) ==
    IF c.md_files = 0 /\ c.json_files = 0 /\ c.log_files = 0 /\ c.other_files = 0
       /\ c.empty_files = 0 THEN 1
    ELSE IF c.json_files > 0 /\ c.md_files = 0 /\ c.log_files = 0 /\ c.other_files = 0
            /\ c.empty_files = 0 THEN 2
    ELSE IF c.empty_files > 0 THEN 3
    ELSE IF c.md_files > 0 THEN 4
    ELSE 5

C2_PriorityTable ==
    \A p \in Range(classified) :
        LET c == FileCounts(GetFileTypes(listing[p]))
            rule == TableRule(c)
        IN  /\ rule = 1 => FiledAs(p, "empty_folders", "high")
            /\ rule = 2 => FiledAs(p, "json_only_folders", "high")
            /\ rule = 3 /\ c.md_files > 0 => FiledAs(p, "folders_with_empty_files", "medium")
            /\ rule = 3 /\ c.md_files = 0 => FiledAs(p, "folders_with_empty_files", "high")
            /\ rule = 4 => FiledAs(p, "valid_folders", "none")
            /\ rule = 5 => RecordsOf(p) = {}

\* a folder with files in all five buckets has been filed
C2_Witness ==
    \E p \in Range(classified) :
        LET c == FileCounts(GetFileTypes(listing[p]))
        IN  /\ c.md_files > 0 /\ c.json_files > 0 /\ c.log_files > 0
            /\ c.other_files > 0 /\ c.empty_files > 0
            /\ FiledAs(p, "folders_with_empty_files", "medium")

(***************************************************************************)
(* C3.  As first stated: every classified folder with at least one         *)
(* non-empty .md file is filed in valid_folders with severity none,        *)
(* whatever else it holds.                                                 *)
(***************************************************************************)
C3_MarkdownAlwaysValid ==
    \A p \in Range(classified) :
        FilesWhere(p, IsNonEmptyMd) # {} => FiledAs(p, "valid_folders", "none")

(***************************************************************************)
(* C3, amended.  Every classified folder with at least one non-empty .md   *)
(* file and no zero-byte file that get_file_types counts is filed in       *)
(* valid_folders with severity none, whatever else it holds.               *)
(***************************************************************************)
C3_MarkdownValidUnlessEmptyFile ==
    \A p \in Range(classified) :
        FilesWhere(p, IsNonEmptyMd) # {} /\ FilesWhere(p, IsCountedZeroByte) = {}
            => FiledAs(p, "valid_folders", "none")

\* a folder with markdown, json and a hidden zero-byte file has been filed as valid
C3_Witness ==
    \E p \in Range(classified) :
        /\ FilesWhere(p, IsNonEmptyMd) # {}
        /\ FilesWhere(p, IsNonEmptyJson) # {}
        /\ FilesWhere(p, IsZeroByte) # {}
        /\ FilesWhere(p, IsCountedZeroByte) = {}
        /\ FiledAs(p, "valid_folders", "none")

(***************************************************************************)
(* C4.  As first stated: every classified leaf with one or more zero-byte  *)
(* files and no .md file is filed in folders_with_empty_files with         *)
(* severity high; with one or more zero-byte files and a non-empty .md     *)
(* file, in folders_with_empty_files with severity medium.                 *)
(***************************************************************************)
C4_ZeroByteFiles ==
    \A p \in Range(classified) :
        /\ FilesWhere(p, IsZeroByte) # {} /\ FilesWhere(p, IsMd) = {}
              => FiledAs(p, "folders_with_empty_files", "high")
        /\ FilesWhere(p, IsZeroByte) # {} /\ FilesWhere(p, IsNonEmptyMd) # {}
              => FiledAs(p, "folders_with_empty_files", "medium")

(***************************************************************************)
(* C4, amended.  The same of the zero-byte files get_file_types counts     *)
(* (every one but a hidden file that is not .json, .md or .log): with one  *)
(* or more of them and no .md file the leaf is filed in                    *)
(* folders_with_empty_files with severity high; with one or more of them   *)
(* and a non-empty .md file, with severity medium.                         *)
(***************************************************************************)
C4_CountedZeroByteFiles ==
    \A p \in Range(classified) :
        /\ FilesWhere(p, IsCountedZeroByte) # {} /\ FilesWhere(p, IsMd) = {}
              => FiledAs(p, "folders_with_empty_files", "high")
        /\ FilesWhere(p, IsCountedZeroByte) # {} /\ FilesWhere(p, IsNonEmptyMd) # {}
              => FiledAs(p, "folders_with_empty_files", "medium")

\* a leaf with a non-empty .md file and a zero-byte file has been filed as medium
C4_Witness ==
    \E p \in Range(classified) :
        /\ FilesWhere(p, IsCountedZeroByte) # {}
        /\ FilesWhere(p, IsNonEmptyMd) # {}
        /\ FiledAs(p, "folders_with_empty_files", "medium")

(***************************************************************************)
(* C5.  As first stated: after a completed scan every directory of the     *)
(* tree with no subdirectory and no file is filed in empty_folders with    *)
(* severity high.                                                          *)
(***************************************************************************)
C5_EveryEmptyDirectory ==
    ScanCompleted =>
        \A p \in tree :
            Children(tree, p) = {} /\ DOMAIN listing[p] = {}
                => FiledAs(p, "empty_folders", "high")

(***************************************************************************)
(* C5, amended.  After a completed scan every directory with no            *)
(* subdirectory and no file that the walk comes to (no name on its path,   *)
(* the root's included, starts with '.') is filed in empty_folders with    *)
(* severity high.                                                          *)
(***************************************************************************)
C5_EveryVisitedEmptyDirectory ==
    ScanCompleted =>
        \A p \in tree :
            Visited(p) /\ Children(tree, p) = {} /\ DOMAIN listing[p] = {}
                => FiledAs(p, "empty_folders", "high")

\* a scan has filed an empty directory below the root
C5_Witness ==
    /\ ScanCompleted
    /\ \E p \in tree :
          /\ Len(p) > 0 /\ Visited(p)
          /\ Children(tree, p) = {} /\ DOMAIN listing[p] = {}
          /\ FiledAs(p, "empty_folders", "high")

(***************************************************************************)
(* C6.  Every classified leaf that has a file, all of whose files are      *)
(* non-empty .json files, is filed in json_only_folders with severity      *)
(* high.                                                                   *)
(***************************************************************************)
C6_JsonOnly ==
    \A p \in Range(classified) :
        DOMAIN listing[p] # {} /\ FilesWhere(p, IsNonEmptyJson) = DOMAIN listing[p]
            => FiledAs(p, "json_only_folders", "high")

\* a leaf of two or more non-empty .json files has been filed
C6_Witness ==
    \E p \in Range(classified) :
        /\ Cardinality(DOMAIN listing[p]) >= 2
        /\ FilesWhere(p, IsNonEmptyJson) = DOMAIN listing[p]
        /\ FiledAs(p, "json_only_folders", "high")

(***************************************************************************)
(* C7.  After a completed scan a leaf folder that has a file, all of whose *)
(* files are non-empty .log files or non-empty non-hidden files that are   *)
(* not .md or .json, has no record in any list, and total_scanned_folders  *)
(* counts only the folders that have a record.                             *)
(***************************************************************************)
C7_LogOrOtherOnlyDropped ==
    ScanCompleted =>
        \A p \in LeafFolders :
            DOMAIN listing[p] # {} /\ FilesWhere(p, IsLogOrOther) = DOMAIN listing[p]
                => /\ RecordsOf(p) = {}
                   /\ results.summary.total_scanned_folders
                        = Cardinality({q \in tree \ {p} : RecordsOf(q) # {}})

\* a scan has come to a leaf of .log or other files and filed another leaf
C7_Witness ==
    /\ ScanCompleted
    /\ \E p \in LeafFolders :
          /\ DOMAIN listing[p] # {} /\ FilesWhere(p, IsLogOrOther) = DOMAIN listing[p]
          /\ p \in Range(classified)
          /\ RecordsOf(p) = {}
    /\ results.summary.total_scanned_folders = 1
    /\ Cardinality(LeafFolders) = 2

(***************************************************************************)
(* C8.  After a completed scan each of the four totals of the summary is   *)
(* the length of its list, total_problematic_folders is the sum of the     *)
(* three problem totals and total_scanned_folders the sum of all four.     *)
(***************************************************************************)
C8_SummaryTotals ==
    ScanCompleted =>
        LET sm == results.summary
        IN  /\ sm.total_empty_folders = Len(results.empty_folders)
            /\ sm.total_json_only_folders = Len(results.json_only_folders)
            /\ sm.total_folders_with_empty_files = Len(results.folders_with_empty_files)
            /\ sm.total_valid_folders = Len(results.valid_folders)
            /\ sm.total_problematic_folders
                 = sm.total_empty_folders + sm.total_json_only_folders
                   + sm.total_folders_with_empty_files
            /\ sm.total_scanned_folders
                 = sm.total_empty_folders + sm.total_json_only_folders
                   + sm.total_folders_with_empty_files + sm.total_valid_folders

\* a scan has filed a valid folder and a problem folder
C8_Witness ==
    /\ ScanCompleted
    /\ Len(results.valid_folders) = 1
    /\ results.summary.total_problematic_folders = 1
    /\ results.summary.total_scanned_folders = 2

(***************************************************************************)
(* C9.  The walk classifies exactly the leaf folders: the directories      *)
(* reached from the root through directories that are not hidden, whose    *)
(* subdirectories are all hidden.  A hidden directory is never classified. *)
(***************************************************************************)
C9_ClassifiesExactlyLeaves ==
    /\ \A p \in Range(classified) : p \in LeafFolders
    /\ \A p \in Range(classified) : p # <<>> => ~NameIsHidden(BaseName(p))
    /\ ScanCompleted => Range(classified) = LeafFolders

\* a scan of a tree with a hidden directory has classified a leaf whose only
\* subdirectory is hidden
C9_Witness ==
    /\ ScanCompleted
    /\ \E p \in Range(classified) :
          /\ Len(p) > 0
          /\ Children(tree, p) # {}

(***************************************************************************)
(* C10.  get_file_types puts every file it counts in exactly one of the    *)
(* five buckets, and every zero-byte file it counts in empty_files         *)
(* whatever its extension: the five counts add up to the number of counted *)
(* files.                                                                  *)
(***************************************************************************)
C10_FiveBuckets ==
    \A p \in Range(classified) :
        LET ft == GetFileTypes(listing[p])
            c == FileCounts(ft)
            counted == FilesWhere(p, IsCounted)
        IN  /\ \A n \in counted : Cardinality({k \in DOMAIN ft : n \in ft[k]}) = 1
            /\ \A k \in DOMAIN ft : ft[k] \subseteq counted
            /\ \A n \in counted : listing[p][n] = 0 => n \in ft["empty_files"]
            /\ c.md_files + c.json_files + c.log_files + c.other_files + c.empty_files
                 = Cardinality(counted)

\* a folder with zero-byte .md, .json and .log files has been bucketed
C10_Witness ==
    \E p \in Range(classified) :
        LET ft == GetFileTypes(listing[p])
        IN  \E a \in ft["empty_files"], b \in ft["empty_files"], c \in ft["empty_files"] :
                HasExt(a, EXT_MD) /\ HasExt(b, EXT_JSON) /\ HasExt(c, EXT_LOG)

(***************************************************************************)
(* MissingFilesDetector (detect_missing_files.py).                         *)
(***************************************************************************)
\* Path.name of a directory, the root included
NameOf(p) == IF p = <<>> THEN PathName(root.name) ELSE BaseName(p)

\* MissingFilesDetector.get_file_types: the bucket of one file
CliBucketOf(file_name) ==
    IF EndsWith(Lower(file_name), EXT_JSON) THEN "json_files"
    ELSE IF EndsWith(Lower(file_name), EXT_MD) THEN "md_files"
    ELSE IF EndsWith(Lower(file_name), EXT_LOG) THEN "log_files"
    ELSE "other_files"

CliGetFileTypes(files) ==
    [k \in {"json_files", "md_files", "log_files", "other_files"} |->
        {n \in DOMAIN files : CliBucketOf(n) = k}]

\* what MissingFilesDetector.check_leaf_folder makes of a leaf:
\* "empty_folders", "json_only_folders", "valid" (printed only) or ""
CliVerdict(file_types) ==
    LET AllHidden(fs) == \A f \in fs : StartsWith(f, DOT)
        total_files ==
            Cardinality(file_types["json_files"]) + Cardinality(file_types["md_files"])
            + Cardinality(file_types["log_files"])
            + (IF ~AllHidden(file_types["other_files"])
                 THEN Cardinality(file_types["other_files"]) ELSE 0)
        non_system_other_files == {f \in file_types["other_files"] : ~StartsWith(f, DOT)}
        actual_other_files == Cardinality(non_system_other_files)
    IN  IF total_files = 0 /\ actual_other_files = 0 THEN "empty_folders"
        ELSE IF /\ Cardinality(file_types["json_files"]) > 0
                /\ Cardinality(file_types["md_files"]) = 0
                /\ Cardinality(file_types["log_files"]) = 0
                /\ actual_other_files = 0
          THEN "json_only_folders"
        ELSE IF Cardinality(file_types["md_files"]) > 0 THEN "valid"
        ELSE ""

\* missing_files_report after check_leaf_folder(folder_path, relative_path);
\* the relative path starts with the name of the root
CliCheckLeafFolder(report, p, files) ==
    LET file_types == CliGetFileTypes(files)
        v == CliVerdict(file_types)
        relative_path == <<root.name>> \o p
    IN  IF v = "empty_folders"
          THEN [report EXCEPT !.empty_folders =
                   Append(@, [path |-> relative_path, absolute_path |-> relative_path,
                              issue |-> "Completely empty folder"])]
        ELSE IF v = "json_only_folders"
          THEN [report EXCEPT !.json_only_folders =
                   Append(@, [path |-> relative_path, absolute_path |-> relative_path,
                              json_files |-> file_types["json_files"],
                              issue |-> "Contains only JSON files, missing main content files (.md)"])]
        ELSE report

\* is_leaf_folder that does not count the hidden subdirectories
CliIsLeafFolderUnhidden(t, p) == IF p \in unreadable THEN FALSE ELSE Unhidden(t, p) = {}

\* MissingFilesDetector.is_leaf_folder: no entry is a directory, hidden or not
CliIsLeafFolder(t, p) == IF p \in unreadable THEN FALSE ELSE Children(t, p) = {}

RECURSIVE CliScanOrders(_, _), CliScanOrdersOfAll(_, _)
\* the leaves MissingFilesDetector.scan_folder(p) passes to check_leaf_folder,
\* in every order iterdir may give
CliScanOrders(t, p) ==
    IF StartsWith(NameOf(p), DOT) THEN {<<>>}
    ELSE IF CliIsLeafFolder(t, p) THEN {<<p>>}
    ELSE IF p \in unreadable THEN {<<>>}
    ELSE CliScanOrdersOfAll(t, Children(t, p))

CliScanOrdersOfAll(t, S) ==
    IF S = {} THEN {<<>>}
    ELSE UNION {{a \o b : a \in CliScanOrders(t, q), b \in CliScanOrdersOfAll(t, S \ {q})} :
                  q \in S}

RECURSIVE CliWarnings(_, _)
\* the directories scan_folder(p) prints "Warning: Permission denied" for
CliWarnings(t, p) ==
    IF StartsWith(NameOf(p), DOT) THEN {}
    ELSE IF p \in unreadable THEN {p}
    ELSE UNION {CliWarnings(t, q) : q \in Children(t, p)}

RECURSIVE CliCheckAll(_, _, _)
\* the report after check_leaf_folder on the leaves of order from position i on
CliCheckAll(report, order, i) ==
    IF i > Len(order) THEN report
    ELSE CliCheckAll(CliCheckLeafFolder(report, order[i], listing[order[i]]), order, i + 1)

\* the summary generate_report would compute were it to count the folders
\* named in each list rather than the entries of the list
CliSummaryOfFolders(report) ==
    LET Named(list) == Cardinality({list[i].path : i \in 1..Len(list)})
    IN  [total_empty_folders |-> Named(report.empty_folders),
         total_json_only_folders |-> Named(report.json_only_folders),
         total_problematic_folders |->
             Named(report.empty_folders) + Named(report.json_only_folders)]

\* the summary generate_report computes
CliSummary(report) ==
    [total_empty_folders |-> Len(report.empty_folders),
     total_json_only_folders |-> Len(report.json_only_folders),
     total_problematic_folders |->
         Len(report.empty_folders) + Len(report.json_only_folders)]

\* json.dump writes the document in chunks: here one for each top-level key
CliDocument(report) ==
    << <<"root_path", root.name>>,
       <<"empty_folders", report.empty_folders>>,
       <<"json_only_folders", report.json_only_folders>>,
       <<"summary", report.summary>> >>

\* run() up to the return of scan_folder
CliRun ==
    /\ cli.pc = "idle"
    /\ IF root.kind = "missing"
         THEN cli' = [cli EXCEPT !.pc = "returned", !.error = "Path does not exist",
                                 !.runs = @ + 1]
       ELSE IF root.kind # "dir"
         THEN cli' = [cli EXCEPT !.pc = "returned", !.error = "Path is not a directory",
                                 !.runs = @ + 1]
       ELSE \E order \in CliScanOrders(tree, <<>>) :
               cli' = [cli EXCEPT !.pc = "report",
                                  !.report = CliCheckAll(@, order, 1),
                                  !.classified = order,
                                  !.warned = CliWarnings(tree, <<>>),
                                  !.runs = @ + 1]
    /\ UNCHANGED <<filesystem, dashboard, simple, disk, app>>

\* generate_report: the summary, then open(report_file, 'w')
CliGenerateReport ==
    /\ cli.pc = "report"
    /\ cli' = [cli EXCEPT !.pc = "dump", !.report.summary = CliSummary(cli.report)]
    /\ disk' = [disk EXCEPT !.missing_files_report = [exists |-> TRUE, content |-> <<>>]]
    /\ UNCHANGED <<filesystem, dashboard, simple, app>>

\* one chunk of json.dump reaches the file; after the last one the file is
\* closed and run() returns
CliDump ==
    /\ cli.pc = "dump"
    /\ LET doc == CliDocument(cli.report)
           written == Len(disk.missing_files_report.content)
       IN  /\ disk' = [disk EXCEPT !.missing_files_report.content = Append(@, doc[written + 1])]
           /\ cli' = [cli EXCEPT !.pc = IF written + 1 = Len(doc) THEN "returned" ELSE "dump"]
    /\ UNCHANGED <<filesystem, dashboard, simple, app>>

\* the process is interrupted while the report file is open
CliInterrupt ==
    /\ cli.pc = "dump"
    /\ cli' = [cli EXCEPT !.pc = "killed"]
    /\ UNCHANGED <<filesystem, dashboard, simple, disk, app>>

(***************************************************************************)
(* detect_missing_files_simple.py                                          *)
(***************************************************************************)
RECURSIVE SimpleWalkOrders(_, _), SimpleWalkOrdersOfAll(_, _)
\* the directories os.walk(root) yields with no subdirs: no directory is
\* pruned, and one that cannot be listed (or is no directory) yields nothing
SimpleWalkOrders(t, p) ==
    IF p \notin t \/ p \in unreadable THEN {<<>>}
    ELSE IF Children(t, p) = {} THEN {<<p>>}
    ELSE SimpleWalkOrdersOfAll(t, Children(t, p))

SimpleWalkOrdersOfAll(t, S) ==
    IF S = {} THEN {<<>>}
    ELSE UNION {{a \o b : a \in SimpleWalkOrders(t, q), b \in SimpleWalkOrdersOfAll(t, S \ {q})} :
                  q \in S}

\* the three lists scan_for_missing_files filters the files of a leaf into
SimpleFileTypes(files) ==
    [md_files    |-> {f \in DOMAIN files : EndsWith(f, EXT_MD)},
     json_files  |-> {f \in DOMAIN files : EndsWith(f, EXT_JSON)},
     other_files |-> {f \in DOMAIN files :
                        ~(EndsWith(f, EXT_JSON) \/ EndsWith(f, EXT_MD)) /\ ~StartsWith(f, DOT)}]

\* what scan_for_missing_files makes of a leaf
SimpleVerdict(files) ==
    LET ft == SimpleFileTypes(files)
    IN  IF DOMAIN files = {} \/ \A f \in DOMAIN files : StartsWith(f, DOT) THEN "empty_folders"
        ELSE IF ft.json_files # {} /\ ft.md_files = {} /\ ft.other_files = {}
          THEN "json_only_folders"
        ELSE IF ft.md_files # {} THEN "valid"
        ELSE ""

SimpleCheck(res, p, files) ==
    LET v == SimpleVerdict(files)
    IN  IF v = "empty_folders" THEN [res EXCEPT !.empty_folders = Append(@, p)]
        ELSE IF v = "json_only_folders"
          THEN [res EXCEPT !.json_only_folders =
                   Append(@, [path |-> p, json_files |-> SimpleFileTypes(files).json_files])]
        ELSE res

RECURSIVE SimpleCheckAll(_, _, _)
SimpleCheckAll(res, order, i) ==
    IF i > Len(order) THEN res
    ELSE SimpleCheckAll(SimpleCheck(res, order[i], listing[order[i]]), order, i + 1)

SimpleDocument(res) ==
    << <<"empty_folders", res.empty_folders>>,
       <<"json_only_folders", res.json_only_folders>> >>

\* scan_for_missing_files
SimpleScan ==
    /\ simple.pc = "idle"
    /\ IF root.kind = "missing"
         THEN simple' = [simple EXCEPT !.pc = "report", !.error = "folder not found"]
         ELSE \E order \in SimpleWalkOrders(tree, <<>>) :
                 simple' = [simple EXCEPT !.pc = "report",
                                          !.results = SimpleCheckAll(@, order, 1),
                                          !.classified = order]
    /\ UNCHANGED <<filesystem, dashboard, cli, disk, app>>

\* main: open(report_file, 'w')
SimpleOpenReport ==
    /\ simple.pc = "report"
    /\ simple' = [simple EXCEPT !.pc = "dump"]
    /\ disk' = [disk EXCEPT !.missing_files_summary = [exists |-> TRUE, content |-> <<>>]]
    /\ UNCHANGED <<filesystem, dashboard, cli, app>>

\* main: one chunk of json.dump reaches the file; after the last the file is closed
SimpleDump ==
    /\ simple.pc = "dump"
    /\ LET doc == SimpleDocument(simple.results)
           written == Len(disk.missing_files_summary.content)
       IN  /\ disk' = [disk EXCEPT !.missing_files_summary.content = Append(@, doc[written + 1])]
           /\ simple' = [simple EXCEPT !.pc = IF written + 1 = Len(doc) THEN "returned" ELSE "dump"]
    /\ UNCHANGED <<filesystem, dashboard, cli, app>>

\* the process is interrupted while the report file is open
SimpleInterrupt ==
    /\ simple.pc = "dump"
    /\ simple' = [simple EXCEPT !.pc = "killed"]
    /\ UNCHANGED <<filesystem, dashboard, cli, disk, app>>

(***************************************************************************)
(* The three programs over one tree.  They share nothing but the tree,     *)
(* which none of them writes, so they are run one after the other: the     *)
(* dashboard's scan, then detect_missing_files.py, then the simple script. *)
(***************************************************************************)
\* what the folders of the trees hold
CliListings ==
    { NoFiles,
      (<<"a">> \o EXT_MD) :> 10,
      (<<"a">> \o EXT_JSON) :> 10 }

\* a tree in which at most one directory cannot be listed
InitCliTree ==
    /\ root \in [kind : {"missing", "file", "dir"}, name : RootNames]
    /\ tree \in IF root.kind = "dir" THEN TreesUpTo(MaxDirs) ELSE {{}}
    /\ listing \in [tree -> CliListings]
    /\ unreadable \in {{}} \cup {{p} : p \in tree}
    /\ Detector
    /\ BeyondIdle

\* one readable folder with any files, none of them empty
InitCliListing ==
    /\ root = [kind |-> "dir", name |-> <<"d", "a", "t", "a">>]
    /\ tree = {<<>>}
    /\ listing \in [tree -> UNION {[T -> {10}] : T \in SetsUpTo(FileNames, MaxFiles)}]
    /\ unreadable = {}
    /\ Detector
    /\ BeyondIdle

InitCli == InitCliTree \/ InitCliListing

DashboardStep ==
    /\ cli.pc = "idle"
    /\ RunScan \/ ScanFolder \/ ScanLeaf \/ GenerateSummary

CliStep ==
    /\ pc = "returned"
    /\ CliRun \/ CliGenerateReport \/ CliDump \/ CliInterrupt

SimpleStep ==
    /\ cli.pc \in {"returned", "killed"}
    /\ SimpleScan \/ SimpleOpenReport \/ SimpleDump \/ SimpleInterrupt

NextCli == DashboardStep \/ CliStep \/ SimpleStep

SpecCli == InitCli /\ [][NextCli]_vars

(***************************************************************************)
(* What the two scripts report of a directory.                             *)
(***************************************************************************)
\* the files of a listing with every name in lower case
LowerListing(files) ==
    [n \in {Lower(m) : m \in DOMAIN files} |->
        files[CHOOSE m \in DOMAIN files : Lower(m) = n]]

\* a verdict as it shows in a report: an unreported folder is in no list
Reported(v) == IF v \in {"empty_folders", "json_only_folders"} THEN v ELSE "none"

\* the lists of missing_files_report that name directory p
CliListsOf(p) ==
    {l \in {"empty_folders", "json_only_folders"} :
        \E i \in 1..Len(cli.report[l]) : cli.report[l][i].path = <<root.name>> \o p}

\* the lists of the simple script's results that name directory p
SimpleListsOf(p) ==
    {l \in {"empty_folders", "json_only_folders"} :
        \E i \in 1..Len(simple.results[l]) :
            IF l = "empty_folders" THEN simple.results[l][i] = p
            ELSE simple.results[l][i].path = p}

\* the lists of the dashboard's results that name directory p
ListsOf(p) == {x[1] : x \in RecordsOf(p)}

CliScanned == cli.pc # "idle" /\ cli.error = ""
SimpleScanned == simple.pc # "idle" /\ simple.error = ""

\* C11: in each of the three scan implementations the extension of a file is
\* matched whatever its case: every classified folder is reported in the list
\* it would be reported in were all its file names in lower case
C11_ExtensionCaseIgnored ==
    /\ ScanCompleted =>
          \A p \in Range(classified) :
              ListsOf(p) = {Verdict(GetFileTypes(LowerListing(listing[p]))).list}
                              \ {"none", ""}
    /\ CliScanned =>
          \A p \in Range(cli.classified) :
              CliListsOf(p) =
                  {Reported(CliVerdict(CliGetFileTypes(LowerListing(listing[p]))))} \ {"none"}
    /\ SimpleScanned =>
          \A p \in Range(simple.classified) :
              SimpleListsOf(p) =
                  {Reported(SimpleVerdict(LowerListing(listing[p])))} \ {"none"}

\* the directories a script reports in list l
CliFolders(l) == {p \in tree : l \in CliListsOf(p)}
SimpleFolders(l) == {p \in tree : l \in SimpleListsOf(p)}

\* C12: once MissingFilesDetector.run and scan_for_missing_files have both
\* scanned the same tree, they report the same set of folders as empty and
\* the same set of folders as JSON-only
C12_ScriptsAgree ==
    (cli.pc \in {"returned", "killed"} /\ simple.pc # "idle") =>
        /\ CliFolders("empty_folders") = SimpleFolders("empty_folders")
        /\ CliFolders("json_only_folders") = SimpleFolders("json_only_folders")

\* scan_folder walks with os.walk(folder_path) and no onerror: a directory
\* os.walk cannot list is passed over, and scan_folder calls st.warning
\* nowhere, so the dashboard's scan warns of no directory
WalkWarnings(t) == {p \in t : FALSE}

IsPrefix(p, q) == Len(p) <= Len(q) /\ SubSeq(q, 1, Len(p)) = p

\* neither q nor a directory above it is unreadable
Readable(q) == \A u \in unreadable : ~IsPrefix(u, q)

\* a scanner comes to p: no directory above it is hidden or unreadable
Reached(p) == Visited(p) /\ \A u \in unreadable \ {p} : ~IsPrefix(u, p)

\* the leaves of MissingFilesDetector: visited, and no subdirectory at all
CliLeafFolders == {p \in tree : Visited(p) /\ Children(tree, p) = {}}

\* an unreadable directory yields no record and keeps no readable leaf from
\* being classified, in the dashboard's scan
DashboardSkipsUnreadable ==
    ScanCompleted =>
        /\ \A p \in unreadable : RecordsOf(p) = {} /\ p \notin Range(classified)
        /\ \A q \in LeafFolders : Readable(q) => q \in Range(classified)

\* the same in MissingFilesDetector, which also warns of the directory
CliSkipsUnreadable ==
    CliScanned =>
        /\ \A p \in unreadable : CliListsOf(p) = {} /\ p \notin Range(cli.classified)
        /\ \A q \in CliLeafFolders : Readable(q) => q \in Range(cli.classified)
        /\ \A p \in unreadable : Reached(p) => p \in cli.warned

\* C13: in both recursive scanners a directory that cannot be read raises no
\* error to the caller: the scan completes, the directory is skipped with a
\* warning and has no record, and every readable leaf outside it is classified
C13_UnreadableSkippedWithWarning ==
    /\ DashboardSkipsUnreadable
    /\ CliSkipsUnreadable
    /\ ScanCompleted =>
          \A p \in unreadable :
              Reached(p) => p \in WalkWarnings(tree)

\* C14: when the root does not exist or is a regular file, each scan entry
\* point (run_scan, MissingFilesDetector.run, scan_for_missing_files) returns
\* having reported an error and with every category list empty
C14_BadRootReported ==
    root.kind # "dir" =>
        /\ pc = "returned" =>
              error # "" /\ \A l \in CategoryLists : results[l] = <<>>
        /\ cli.pc # "idle" =>
              /\ cli.pc = "returned" /\ cli.error # ""
              /\ cli.report.empty_folders = <<>> /\ cli.report.json_only_folders = <<>>
        /\ simple.pc # "idle" =>
              /\ simple.error # ""
              /\ simple.results.empty_folders = <<>> /\ simple.results.json_only_folders = <<>>

\* C18: at every point, interruption included, each report file on disk is
\* either absent or the complete JSON document of its script's results
C18_ReportFileAbsentOrComplete ==
    /\ disk.missing_files_report.exists =>
          disk.missing_files_report.content = CliDocument(cli.report)
    /\ disk.missing_files_summary.exists =>
          disk.missing_files_summary.content = SimpleDocument(simple.results)

(***************************************************************************)
(* Result dicts as objects.  A dict lives in the heap under its identity;  *)
(* self.results and the value run_scan returns are references to it.       *)
(***************************************************************************)
\* run_scan's head, were it to empty the dict self.results refers to
NewResultsInPlace(objs, root_path) ==
    [objs EXCEPT !.heap = [@ EXCEPT ![objs.self_results] = FreshResults(root_path)]]

\* run_scan's head: self.results = {...} binds the attribute to a new dict
NewResults(objs, root_path) ==
    LET ident == Cardinality(DOMAIN objs.heap)
    IN  [objs EXCEPT !.heap = @ @@ (ident :> FreshResults(root_path)),
                     !.self_results = ident]

RECURSIVE CheckAll(_, _, _, _)
\* scan_folder's loop: check_leaf_folder on leaf_dirs from position i on
CheckAll(res, root_name, order, i) ==
    IF i > Len(order) THEN res
    ELSE CheckAll(CheckLeafFolder(res, root_name, order[i], listing[order[i]]),
                  root_name, order, i + 1)

\* a path at which there is nothing
GonePath == [kind |-> "missing", name |-> <<"g", "o", "n", "e">>]

\* a whole call of run_scan(selected_folder); the caller keeps the reference
\* it returns, with the value the dict had then
RunScanOn(selected) ==
    /\ pc \in {"idle", "returned"}
    /\ Len(objects.returned) < MaxRuns
    /\ LET reset == NewResults(objects, selected.name)
           ref == reset.self_results
           Return(value) ==
               [heap |-> [reset.heap EXCEPT ![ref] = value],
                self_results |-> ref,
                returned |-> Append(objects.returned, [ref |-> ref, value |-> value])]
       IN  IF selected.kind # "dir"
             THEN /\ error' = IF selected.kind = "missing"
                                THEN "Selected folder does not exist"
                                ELSE "Selected path is not a directory"
                  /\ leaf_dirs' = <<>>
                  /\ results' = reset.heap[ref]
                  /\ objects' = Return(results')
             ELSE /\ error' = ""
                  /\ leaf_dirs' \in IF StartsWith(selected.name, DOT) THEN {<<>>}
                                    ELSE LeafOrders(tree, <<>>)
                  /\ LET scanned == CheckAll(reset.heap[ref], selected.name, leaf_dirs', 1)
                     IN  results' = [scanned EXCEPT !["summary"] = Summary(scanned)]
                  /\ objects' = Return(results')
    /\ classified' = leaf_dirs'
    /\ idx' = Len(leaf_dirs') + 1
    /\ pc' = "returned"
    /\ UNCHANGED <<filesystem, cli, simple, disk, tmp, zip, downloads>>

\* what the folders of the trees hold
RerunListings ==
    { NoFiles,
      (<<"a">> \o EXT_MD) :> 10 }

InitRerun ==
    /\ root \in [kind : {"dir"}, name : RootNames]
    /\ tree \in TreesUpTo(MaxDirs)
    /\ listing \in [tree -> RerunListings]
    /\ unreadable = {}
    /\ Detector
    /\ BeyondIdle

NextRerun == \E selected \in {root, GonePath} : RunScanOn(selected)

SpecRerun == InitRerun /\ [][NextRerun]_vars

\* C15: a result dict is not changed once its scan has completed: the dict
\* each run_scan returned still has the value it was returned with, whatever
\* run_scan calls the same detector has served since
C15_ReturnedResultsUnchanged ==
    \A i \in 1..Len(objects.returned) :
        objects.heap[objects.returned[i].ref] = objects.returned[i].value

\* two scans by one detector, the first with records, the second of another path
C15_Witness ==
    /\ Len(objects.returned) >= 2
    /\ objects.returned[1].value # objects.returned[2].value
    /\ \E l \in CategoryLists : objects.returned[1].value[l] # <<>>
    /\ objects.self_results # objects.returned[1].ref

(***************************************************************************)
(* Uploaded archives: extract_zip_file and cleanup_temp_directory of the   *)
(* detector, and the ZIP upload of main.                                   *)
(***************************************************************************)
EntryNames == {"A/a.md", "b.json"}

RECURSIVE SeqsNoRepeat(_, _)
\* the sequences of at most n different elements of S
SeqsNoRepeat(S, n) ==
    IF n = 0 THEN {<<>>}
    ELSE LET shorter == SeqsNoRepeat(S, n - 1)
         IN  shorter \cup
             UNION {{Append(q, x) : x \in S \ Range(q)} : q \in shorter}

\* an uploaded archive: its entries, whether zipfile can read all of it, and
\* if not the number of entries extracted before BadZipFile is raised (none
\* when the ZipFile constructor raises it); every upload has the same file name
Archives ==
    UNION {{[entries |-> e, sound |-> TRUE, good |-> Len(e)]}
             \cup {[entries |-> e, sound |-> FALSE, good |-> g] :
                      g \in 0..(IF Len(e) = 0 THEN 0 ELSE Len(e) - 1)} :
           e \in SeqsNoRepeat(EntryNames, MaxEntries)}

\* the entries on disk when extraction of the archive stops
Extracted(archive) == {archive.entries[i] : i \in 1..archive.good}

\* shutil.rmtree of a temporary directory
Rmtree(dirs, d) == [x \in DOMAIN dirs \ {d} |-> dirs[x]]

\* detector.extract_zip_file(uploaded_file)
ExtractZipFile(archive) ==
    /\ ~zip.ended
    /\ zip.uploads < MaxUploads
    /\ LET temp_dir == zip.uploads + 1
           made == tmp @@ (temp_dir :> [prefix |-> "zip_scan_", archive |-> TRUE,
                                         extracted |-> TRUE,
                                         entries |-> Extracted(archive)])
       IN  IF archive.sound
             THEN /\ tmp' = made
                  /\ zip' = [zip EXCEPT !.uploads = @ + 1,
                                        !.last = [flow |-> "extract_zip_file", outcome |-> "ok",
                                                  error |-> "", dir |-> temp_dir,
                                                  returned |-> temp_dir,
                                                  left |-> {}, cleaned |-> FALSE]]
             ELSE /\ tmp' = made
                  /\ zip' = [zip EXCEPT !.uploads = @ + 1,
                                        !.last = [flow |-> "extract_zip_file", outcome |-> "bad",
                                                  error |-> "Invalid ZIP file", dir |-> temp_dir,
                                                  returned |-> 0,
                                                  left |-> Extracted(archive), cleaned |-> FALSE]]
    /\ UNCHANGED <<filesystem, dashboard, cli, simple, disk, objects, downloads>>

\* the caller of extract_zip_file is done with what it got and calls
\* detector.cleanup_temp_directory on the directory it was given, if any
CleanupTempDirectory ==
    /\ ~zip.ended
    /\ zip.last.flow = "extract_zip_file"
    /\ ~zip.last.cleaned
    /\ LET temp_dir == zip.last.returned
       IN  tmp' = IF temp_dir # 0 /\ temp_dir \in DOMAIN tmp THEN Rmtree(tmp, temp_dir) ELSE tmp
    /\ zip' = [zip EXCEPT !.last.cleaned = TRUE]
    /\ UNCHANGED <<filesystem, dashboard, cli, simple, disk, objects, downloads>>

\* what extractall leaves when it stops, had it extracted into an empty directory
ExtractAllAlone(before, archive) == Extracted(archive)

\* zip_ref.extractall(extract_dir): the entries of the archive are written
\* into the directory, beside (or over) what the directory holds already
ExtractAll(before, archive) == before \cup Extracted(archive)

\* main, a run of the script with an archive in the ZIP uploader
MainZipUpload(archive) ==
    /\ ~zip.ended
    /\ zip.uploads < MaxUploads
    /\ LET extract_dir == IF zip.temp_zip_dir = 0 THEN zip.uploads + 1 ELSE zip.temp_zip_dir
           before == IF extract_dir \in DOMAIN tmp THEN tmp[extract_dir].entries ELSE {}
       IN  /\ tmp' = [d \in DOMAIN tmp \cup {extract_dir} |->
                        IF d = extract_dir
                          THEN [prefix |-> "streamlit_zip_", archive |-> ~archive.sound,
                                extracted |-> FALSE,
                                entries |-> ExtractAll(before, archive)]
                          ELSE tmp[d]]
           /\ zip' = [zip EXCEPT !.uploads = @ + 1,
                                 !.temp_zip_dir = extract_dir,
                                 !.last = [flow |-> "main",
                                           outcome |-> IF archive.sound THEN "ok" ELSE "bad",
                                           error |-> IF archive.sound THEN "" ELSE "Invalid ZIP file",
                                           dir |-> extract_dir, returned |-> 0,
                                           left |-> Extracted(archive), cleaned |-> FALSE]]
    /\ UNCHANGED <<filesystem, dashboard, cli, simple, disk, objects, downloads>>

\* main, the "Clear ZIP contents" button, shown once an archive is extracted
ClearZipContents ==
    /\ ~zip.ended
    /\ zip.last.flow = "main" /\ zip.last.outcome = "ok"
    /\ zip.temp_zip_dir # 0
    /\ tmp' = Rmtree(tmp, zip.temp_zip_dir)
    /\ zip' = [zip EXCEPT !.temp_zip_dir = 0, !.last.cleaned = TRUE]
    /\ UNCHANGED <<filesystem, dashboard, cli, simple, disk, objects, downloads>>

\* the session ends (the browser tab is closed): no code of the app runs
SessionEnd ==
    /\ ~zip.ended
    /\ zip.uploads > 0
    /\ zip' = [zip EXCEPT !.ended = TRUE]
    /\ UNCHANGED <<filesystem, dashboard, cli, simple, disk, objects, tmp, downloads>>

InitZip ==
    /\ root = [kind |-> "missing", name |-> <<"d", "a", "t", "a">>]
    /\ tree = {}
    /\ listing = [p \in {} |-> NoFiles]
    /\ unreadable = {}
    /\ Detector
    /\ BeyondIdle

NextZip ==
    \/ \E archive \in Archives : ExtractZipFile(archive)
    \/ CleanupTempDirectory
    \/ \E archive \in Archives : MainZipUpload(archive)
    \/ ClearZipContents
    \/ SessionEnd

SpecZip == InitZip /\ [][NextZip]_vars

\* C16: once the caller is done with an uploaded archive, by success or by
\* failure, its temporary workspace is gone: for extract_zip_file when the
\* caller has cleaned up, for main's temp_zip_dir when the session has ended
C16_TempWorkspaceRemoved ==
    /\ (zip.last.flow = "extract_zip_file" /\ zip.last.cleaned) =>
          zip.last.dir \notin DOMAIN tmp
    /\ zip.ended =>
          \A d \in DOMAIN tmp : tmp[d].prefix # "streamlit_zip_"

\* C17: when an uploaded archive is corrupt (BadZipFile), an error is
\* reported and nothing of the archive is left on disk: no temporary
\* directory made for it, no saved copy of the archive, no extracted entry
C17_CorruptArchiveLeavesNothing ==
    zip.last.outcome = "bad" =>
        /\ zip.last.error # ""
        /\ zip.last.dir \in DOMAIN tmp =>
              /\ zip.last.dir # zip.uploads
              /\ ~tmp[zip.last.dir].archive
              /\ zip.last.left \cap tmp[zip.last.dir].entries = {}

(***************************************************************************)
(* main, the display of scan_results: the JSON and CSV reports offered for *)
(* download.                                                               *)
(***************************************************************************)
\* dict.get(key, default)
Get(d, key, default) == IF key \in DOMAIN d THEN d[key] ELSE default

\* the keys of the dicts the report is made of, in the order they are set
ResultsKeys ==
    <<"scan_date", "root_path", "empty_folders", "json_only_folders",
      "folders_with_empty_files", "valid_folders", "summary">>
FolderInfoKeys == <<"path", "absolute_path", "file_counts", "files", "issue", "severity">>
FileTypeKeys == <<"json_files", "md_files", "log_files", "other_files", "empty_files">>
FileCountKeys == <<"md_files", "json_files", "log_files", "other_files", "empty_files">>
SummaryKeys ==
    <<"total_empty_folders", "total_json_only_folders", "total_folders_with_empty_files",
      "total_valid_folders", "total_problematic_folders", "total_scanned_folders">>

\* json.dumps of a dict: a JSON object, its members the items of the dict in
\* key order, each value dumped by dump
JsonObject(d, keys, dump(_, _)) ==
    LET present == SelectSeq(keys, LAMBDA k : k \in DOMAIN d)
    IN  [i \in 1..Len(present) |-> <<present[i], dump(present[i], d[present[i]])>>]

\* json.dumps of a list
JsonArray(list, dump(_)) == [i \in 1..Len(list) |-> dump(list[i])]

JsonScalar(k, v) == v

\* json.dumps of one folder_info, were its "files" item not dumped
JsonFolderWithoutFiles(folder) ==
    JsonObject(folder, <<"path", "absolute_path", "file_counts", "issue", "severity">>,
               LAMBDA k, v :
                   IF k = "file_counts" THEN JsonObject(v, FileCountKeys, JsonScalar)
                   ELSE v)

\* json.dumps of one folder_info
JsonFolder(folder) ==
    JsonObject(folder, FolderInfoKeys,
               LAMBDA k, v :
                   IF k = "file_counts" THEN JsonObject(v, FileCountKeys, JsonScalar)
                   ELSE IF k = "files" THEN JsonObject(v, FileTypeKeys, JsonScalar)
                   ELSE v)

\* create_download_link: json.dumps(results)
JsonReport(data) ==
    JsonObject(data, ResultsKeys,
               LAMBDA k, v :
                   IF k = "summary" THEN JsonObject(v, SummaryKeys, JsonScalar)
                   ELSE IF k = "root_path" THEN v
                   ELSE JsonArray(v, JsonFolder))

\* the dict main appends to problematic_data for one folder
ProblematicRow(folder, issue_type, default_severity) ==
    [Path         |-> folder["path"],
     IssueType    |-> issue_type,
     Severity     |-> Get(folder, "severity", default_severity),
     Issue        |-> folder["issue"],
     MDFiles      |-> folder["file_counts"]["md_files"],
     JSONFiles    |-> folder["file_counts"]["json_files"],
     EmptyFiles   |-> Get(folder["file_counts"], "empty_files", 0)]

RowsOf(list, issue_type, default_severity) ==
    [i \in 1..Len(list) |-> ProblematicRow(list[i], issue_type, default_severity)]

\* problematic_data with the loop over folders_with_empty_files left out
ProblematicDataTwoLists(data) ==
    RowsOf(data["empty_folders"], "Empty Folder", "high")
    \o RowsOf(data["json_only_folders"], "JSON-Only Folder", "high")

\* problematic_data after the three loops
ProblematicData(data) ==
    RowsOf(data["empty_folders"], "Empty Folder", "high")
    \o RowsOf(data["json_only_folders"], "JSON-Only Folder", "high")
    \o RowsOf(data["folders_with_empty_files"], "Empty Files Issue", "medium")

\* the columns of the DataFrame: the keys of the row dicts, in their order
CsvColumns ==
    <<"Path", "Issue Type", "Severity", "Issue", "MD Files", "JSON Files", "Empty Files">>

\* pd.DataFrame(problematic_data).to_csv(index=False): the header line, then
\* one line of cells for each row
ToCsv(rows) ==
    <<CsvColumns>> \o
    [i \in 1..Len(rows) |->
        <<rows[i].Path, rows[i].IssueType, rows[i].Severity, rows[i].Issue,
          rows[i].MDFiles, rows[i].JSONFiles, rows[i].EmptyFiles>>]

\* the characters of the string literals of check_leaf_folder's issue texts
IssueChars(piece) ==
    CASE piece = "Completely empty folder" ->
           <<"C", "o", "m", "p", "l", "e", "t", "e", "l", "y", " ", "e", "m", "p",
             "t", "y", " ", "f", "o", "l", "d", "e", "r">>
      [] piece = "Contains only JSON files, missing main content files (.md)" ->
           <<"C", "o", "n", "t", "a", "i", "n", "s", " ", "o", "n", "l", "y", " ",
             "J", "S", "O", "N", " ", "f", "i", "l", "e", "s", ",", " ", "m", "i",
             "s", "s", "i", "n", "g", " ", "m", "a", "i", "n", " ", "c", "o", "n",
             "t", "e", "n", "t", " ", "f", "i", "l", "e", "s", " ", "(", ".", "m",
             "d", ")">>
      [] piece = "Folder has content but contains " ->
           <<"F", "o", "l", "d", "e", "r", " ", "h", "a", "s", " ", "c", "o", "n",
             "t", "e", "n", "t", " ", "b", "u", "t", " ", "c", "o", "n", "t", "a",
             "i", "n", "s", " ">>
      [] piece = " empty file(s)" ->
           <<" ", "e", "m", "p", "t", "y", " ", "f", "i", "l", "e", "(", "s", ")">>
      [] piece = "No main content files, contains " ->
           <<"N", "o", " ", "m", "a", "i", "n", " ", "c", "o", "n", "t", "e", "n",
             "t", " ", "f", "i", "l", "e", "s", ",", " ", "c", "o", "n", "t", "a",
             "i", "n", "s", " ">>
      [] piece = "Valid folder with content" ->
           <<"V", "a", "l", "i", "d", " ", "f", "o", "l", "d", "e", "r", " ", "w",
             "i", "t", "h", " ", "c", "o", "n", "t", "e", "n", "t">>

DecimalDigits == <<"0", "1", "2", "3", "4", "5", "6", "7", "8", "9">>

RECURSIVE Decimal(_)
\* str(n) of a natural number, as an f-string formats it
Decimal(n) ==
    IF n < 10 THEN <<DecimalDigits[n + 1]>>
    ELSE Decimal(n \div 10) \o <<DecimalDigits[(n % 10) + 1]>>

\* the text of an issue: a literal, or the f-string literal{count}literal
IssueText(issue) ==
    IF Len(issue) = 1 THEN IssueChars(issue[1])
    ELSE IssueChars(issue[1]) \o Decimal(issue[2]) \o IssueChars(issue[3])

\* needle in hay, of two strings
In(needle, hay) ==
    \E i \in 1..(Len(hay) - Len(needle) + 1) :
        SubSeq(hay, i, i + Len(needle) - 1) = needle

VALID_FOLDER == <<"V", "a", "l", "i", "d", " ", "f", "o", "l", "d", "e", "r">>
EMPTY == <<"e", "m", "p", "t", "y">>
ONLY_JSON == <<"o", "n", "l", "y", " ", "J", "S", "O", "N">>
EMPTY_FILE == <<"e", "m", "p", "t", "y", " ", "f", "i", "l", "e">>

\* the status indicator with the test of 'medium' before the tests of the text
FolderStatusMediumFirst(folder) ==
    LET severity == Get(folder, "severity", "none")
        issue == IssueText(folder["issue"])
    IN  IF severity = "none" \/ In(VALID_FOLDER, issue) THEN "Valid"
        ELSE IF severity = "medium" \/ In(EMPTY_FILE, Lower(issue)) THEN "Issues"
        ELSE IF severity = "high" \/ In(EMPTY, Lower(issue)) \/ In(ONLY_JSON, issue)
          THEN "Critical"
        ELSE "Unknown"

\* display_folder_details, the status indicator shown beside one folder
FolderStatus(folder) ==
    LET severity == Get(folder, "severity", "none")
        issue == IssueText(folder["issue"])
    IN  IF severity = "none" \/ In(VALID_FOLDER, issue) THEN "Valid"
        ELSE IF severity = "high" \/ In(EMPTY, Lower(issue)) \/ In(ONLY_JSON, issue)
          THEN "Critical"
        ELSE IF severity = "medium" \/ In(EMPTY_FILE, Lower(issue)) THEN "Issues"
        ELSE "Unknown"

\* display_folder_details(folders_data, ...): the indicators, in list order
DisplayFolderDetails(folders_data) ==
    [i \in 1..Len(folders_data) |-> FolderStatus(folders_data[i])]

\* the tabs of the four lists; the last one only with 'Show valid folders'
ShowTabs(res, show_valid) ==
    [l \in CategoryLists |->
        IF l = "valid_folders" /\ ~show_valid THEN <<>>
        ELSE DisplayFolderDetails(res[l])]

\* a run of main with scan_results in the session: the summary tab reads
\* results['summary'], then builds the JSON link and, when there is a
\* problematic folder, the CSV; the other tabs show the folders of the lists
ShowResults ==
    /\ pc = "returned"
    /\ IF "total_scanned_folders" \notin DOMAIN results["summary"]
         THEN downloads' = [NoDownloads EXCEPT !.shown = TRUE, !.raised = "KeyError",
                                               !.data = results]
         ELSE \E show_valid \in BOOLEAN :
                downloads' =
                  [shown |-> TRUE, raised |-> "", data |-> results,
                   json |-> JsonReport(results),
                   csv_built |-> results["summary"]["total_problematic_folders"] > 0,
                   csv |-> IF results["summary"]["total_problematic_folders"] > 0
                             THEN ToCsv(ProblematicData(results)) ELSE <<>>,
                   status |-> ShowTabs(results, show_valid)]
    /\ UNCHANGED <<filesystem, dashboard, cli, simple, disk, objects, tmp, zip>>

\* what the folders of the trees hold: nothing, a JSON file, markdown with
\* an empty file, markdown, an empty file alone
ExportListings ==
    { NoFiles,
      (<<"a">> \o EXT_JSON) :> 10,
      ((<<"a">> \o EXT_MD) :> 10) @@ ((<<"a", ".", "t", "x", "t">>) :> 0),
      (<<"a">> \o EXT_MD) :> 10,
      (<<"a", ".", "t", "x", "t">>) :> 0 }

InitExport ==
    /\ root \in [kind : {"missing", "dir"}, name : {<<"d", "a", "t", "a">>}]
    /\ tree \in IF root.kind = "dir" THEN TreesUpTo(MaxDirs) ELSE {{}}
    /\ listing \in [tree -> ExportListings]
    /\ unreadable = {}
    /\ Detector
    /\ BeyondIdle

NextExport == RunScan \/ ScanFolder \/ ScanLeaf \/ GenerateSummary \/ ShowResults

SpecExport == InitExport /\ [][NextExport]_vars

\* the names and the values of the members of a JSON object
JsonKeys(obj) == {obj[i][1] : i \in 1..Len(obj)}
JsonValue(obj, key) == obj[CHOOSE i \in 1..Len(obj) : obj[i][1] = key][2]

\* C19: the CSV export has the header Path, Issue Type, Severity, Issue,
\* MD Files, JSON Files, Empty Files and below it exactly one row of seven
\* cells for each record of empty_folders, then of json_only_folders, then of
\* folders_with_empty_files, in list order; no row is of a valid folder, and
\* the number of rows is total_problematic_folders
C19_CsvExport ==
    downloads.csv_built =>
        LET data == downloads.data
            csv == downloads.csv
            n1 == Len(data["empty_folders"])
            n2 == Len(data["json_only_folders"])
            n3 == Len(data["folders_with_empty_files"])
            TypeOf(i) == IF i <= n1 THEN "Empty Folder"
                         ELSE IF i <= n1 + n2 THEN "JSON-Only Folder"
                         ELSE "Empty Files Issue"
            RecordOf(i) == IF i <= n1 THEN data["empty_folders"][i]
                           ELSE IF i <= n1 + n2 THEN data["json_only_folders"][i - n1]
                           ELSE data["folders_with_empty_files"][i - n1 - n2]
        IN  /\ csv[1] = <<"Path", "Issue Type", "Severity", "Issue",
                          "MD Files", "JSON Files", "Empty Files">>
            /\ Len(csv) - 1 = n1 + n2 + n3
            /\ Len(csv) - 1 = data["summary"]["total_problematic_folders"]
            /\ \A i \in 1..(n1 + n2 + n3) :
                  csv[i + 1] = <<RecordOf(i).path, TypeOf(i), RecordOf(i).severity,
                                 RecordOf(i).issue, RecordOf(i).file_counts.md_files,
                                 RecordOf(i).file_counts.json_files,
                                 RecordOf(i).file_counts.empty_files>>
            /\ \A j \in 1..Len(data["valid_folders"]) :
                  \A i \in 2..Len(csv) : csv[i][1] # data["valid_folders"][j].path

\* a CSV with two rows from different lists
C19_Witness ==
    /\ downloads.csv_built
    /\ Len(downloads.csv) = 3
    /\ downloads.csv[2][2] # downloads.csv[3][2]

\* the records of the JSON report
JsonFolderRecords ==
    UNION {Range(JsonValue(downloads.json, l)) : l \in CategoryLists}

NOTES_MD == <<"n", "o", "t", "e", "s">> \o EXT_MD
META_JSON == <<"m", "e", "t", "a">> \o EXT_JSON
DRAFT_MD == <<"d", "r", "a", "f", "t">> \o EXT_MD

\* a root data/ with the leaves A (no file), B (notes.md, 10 bytes),
\* C (meta.json, 5 bytes) and D (notes.md, 10 bytes, and draft.md, 0 bytes)
InitScenario ==
    /\ root = [kind |-> "dir", name |-> <<"d", "a", "t", "a">>]
    /\ tree = {<<>>, <<<<"A">>>>, <<<<"B">>>>, <<<<"C">>>>, <<<<"D">>>>}
    /\ listing = (<<>> :> NoFiles)
                 @@ (<<<<"A">>>> :> NoFiles)
                 @@ (<<<<"B">>>> :> (NOTES_MD :> 10))
                 @@ (<<<<"C">>>> :> (META_JSON :> 5))
                 @@ (<<<<"D">>>> :> ((NOTES_MD :> 10) @@ (DRAFT_MD :> 0)))
    /\ unreadable = {}
    /\ Detector
    /\ BeyondIdle

SpecScenario == InitScenario /\ [][Next]_vars

\* the paths of the records of a list, in list order
PathsOf(list) == [i \in 1..Len(list) |-> list[i].path]

\* C21: the scan of the four-leaf scenario files A in empty_folders, B in
\* valid_folders, C in json_only_folders and D in folders_with_empty_files
\* with severity medium, and counts 3 problematic folders of 4 scanned
C21_FourLeafScenario ==
    ScanCompleted =>
        /\ PathsOf(results["empty_folders"]) = << <<<<"A">>>> >>
        /\ PathsOf(results["valid_folders"]) = << <<<<"B">>>> >>
        /\ PathsOf(results["json_only_folders"]) = << <<<<"C">>>> >>
        /\ PathsOf(results["folders_with_empty_files"]) = << <<<<"D">>>> >>
        /\ results["folders_with_empty_files"][1].severity = "medium"
        /\ results["summary"]["total_problematic_folders"] = 3
        /\ results["summary"]["total_scanned_folders"] = 4

\* the scan of the scenario has returned
C21_Witness ==
    /\ ScanCompleted
    /\ tree = {<<>>, <<<<"A">>>>, <<<<"B">>>>, <<<<"C">>>>, <<<<"D">>>>}
    /\ Len(classified) = 4

\* the number of records in the four lists
TotalRecords ==
    Len(results["empty_folders"]) + Len(results["json_only_folders"])
    + Len(results["folders_with_empty_files"]) + Len(results["valid_folders"])

\* C22: at every point of a run_scan, check_leaf_folder has been called at
\* most once on each directory and each call has appended at most one record,
\* so no path has two records in the four lists together
C22_NoPathTwice ==
    /\ \A i, j \in 1..Len(classified) : classified[i] = classified[j] => i = j
    /\ TotalRecords <= Len(classified)
    /\ \A p \in tree : Cardinality(RecordsOf(p)) <= 1

\* a scan that has filed two folders, one of them with markdown and an empty file
C22_Witness ==
    /\ ScanCompleted
    /\ TotalRecords >= 2
    /\ \E i \in 1..Len(results["folders_with_empty_files"]) :
          results["folders_with_empty_files"][i].file_counts.md_files > 0

(***************************************************************************)
(* run() called again and again on one MissingFilesDetector.               *)
(***************************************************************************)
\* a whole call of run(): the two tests of the root, scan_folder, then
\* generate_report with the report file written to its end
CliRunWhole ==
    /\ cli.pc \in {"idle", "returned"}
    /\ cli.runs < MaxRuns
    /\ IF root.kind # "dir"
         THEN /\ cli' = [cli EXCEPT !.pc = "returned", !.runs = @ + 1,
                                    !.error = IF root.kind = "missing"
                                                THEN "Path does not exist"
                                                ELSE "Path is not a directory"]
              /\ disk' = disk
         ELSE \E order \in CliScanOrders(tree, <<>>) :
                 LET scanned == CliCheckAll(cli.report, order, 1)
                     report == [scanned EXCEPT !.summary = CliSummary(scanned)]
                 IN  /\ cli' = [cli EXCEPT !.pc = "returned", !.runs = @ + 1,
                                           !.report = report,
                                           !.classified = order,
                                           !.warned = CliWarnings(tree, <<>>)]
                     /\ disk' = [disk EXCEPT !.missing_files_report =
                                    [exists |-> TRUE, content |-> CliDocument(report)]]
    /\ UNCHANGED <<filesystem, dashboard, simple, app>>

InitCliRerun ==
    /\ root \in [kind : {"missing", "dir"}, name : RootNames]
    /\ tree \in IF root.kind = "dir" THEN TreesUpTo(MaxDirs) ELSE {{}}
    /\ listing \in [tree -> CliListings]
    /\ unreadable = {}
    /\ Detector
    /\ BeyondIdle

NextCliRerun == CliRunWhole

SpecCliRerun == InitCliRerun /\ [][NextCliRerun]_vars

\* the number of times entry e occurs in a list
Copies(list, e) == Cardinality({i \in 1..Len(list) : list[i] = e})

\* C23: after n calls of run() on one detector over an unchanged tree, each
\* entry of empty_folders and of json_only_folders is there n times, one for
\* each run, and the summary totals are n times the totals of a single run:
\* n for every folder named in the list
C23_RunsAccumulate ==
    (cli.runs >= 1 /\ cli.error = "") =>
        LET Named(l) == {cli.report[l][i] : i \in 1..Len(cli.report[l])}
        IN  /\ \A l \in {"empty_folders", "json_only_folders"} :
                  /\ \A e \in Named(l) : Copies(cli.report[l], e) = cli.runs
                  /\ Len(cli.report[l]) = cli.runs * Cardinality(Named(l))
            /\ cli.report.summary.total_empty_folders =
                  cli.runs * Cardinality(Named("empty_folders"))
            /\ cli.report.summary.total_json_only_folders =
                  cli.runs * Cardinality(Named("json_only_folders"))
            /\ cli.report.summary.total_problematic_folders =
                  cli.runs * (Cardinality(Named("empty_folders"))
                              + Cardinality(Named("json_only_folders")))

\* two runs over a tree with an empty leaf and a JSON-only leaf
C23_Witness ==
    /\ cli.runs = 2
    /\ Len(cli.report.empty_folders) = 2
    /\ Len(cli.report.json_only_folders) = 2
    /\ cli.report.summary.total_problematic_folders = 4

(***************************************************************************)
(* A leaf that is gone when scan_folder's loop comes to it: iterdir in     *)
(* get_file_types raises FileNotFoundError, which get_file_types does not  *)
(* catch and scan_folder's except Exception does.                          *)
(***************************************************************************)
\* the turn of the loop that raises, were the exception caught inside the
\* loop and the loop to go on with the next leaf
ScanLeafRaisesGoesOn ==
    /\ pc = "leaves"
    /\ idx <= Len(leaf_dirs)
    /\ leaf_dirs[idx] \in vanished
    /\ classified' = Append(classified, leaf_dirs[idx])
    /\ error' = "Error scanning"
    /\ idx' = idx + 1
    /\ pc' = IF idx = Len(leaf_dirs) THEN "summary" ELSE "leaves"
    /\ UNCHANGED <<root, tree, listing, results, leaf_dirs, unreadable, vanished, beyond>>

\* the turn of the loop that raises: check_leaf_folder is left before it
\* appends, the loop is left for the except clause, which calls st.error, and
\* scan_folder returns to run_scan
ScanLeafRaises ==
    /\ pc = "leaves"
    /\ idx <= Len(leaf_dirs)
    /\ leaf_dirs[idx] \in vanished
    /\ classified' = Append(classified, leaf_dirs[idx])
    /\ error' = "Error scanning"
    /\ idx' = idx
    /\ pc' = "summary"
    /\ UNCHANGED <<root, tree, listing, results, leaf_dirs, unreadable, vanished, beyond>>

\* what the folders of the trees hold
FaultListings ==
    { NoFiles,
      (<<"a">> \o EXT_MD) :> 10 }

\* a tree of which at most one directory is removed during the scan
InitFault ==
    /\ root \in [kind : {"missing", "file", "dir"}, name : RootNames]
    /\ tree \in IF root.kind = "dir" THEN TreesUpTo(MaxDirs) ELSE {{}}
    /\ listing \in [tree -> FaultListings]
    /\ unreadable = {}
    /\ vanished \in {{}} \cup {{p} : p \in tree}
    /\ Detector
    /\ OutsideIdle

\* a root data/ with up to three leaves below it, one of them at most
\* removed during the scan
InitFaultFlat ==
    /\ root = [kind |-> "dir", name |-> <<"d", "a", "t", "a">>]
    /\ tree \in {{<<>>} \cup {<<d>> : d \in S} : S \in SUBSET {<<"A">>, <<"B">>, <<"C">>}}
    /\ listing \in [tree -> FaultListings]
    /\ unreadable = {}
    /\ vanished \in {{}} \cup {{p} : p \in tree}
    /\ Detector
    /\ OutsideIdle

NextFault == RunScan \/ ScanFolder \/ ScanLeaf \/ ScanLeafRaises \/ GenerateSummary

InitFaults == InitFault \/ InitFaultFlat

SpecFault == InitFaults /\ [][NextFault]_vars

SixTotals ==
    {"total_empty_folders", "total_json_only_folders", "total_folders_with_empty_files",
     "total_valid_folders", "total_problematic_folders", "total_scanned_folders"}

\* C24: the result run_scan returns for a root that is missing or not a
\* directory has an empty summary; the result it returns on any other path,
\* a hidden root, an empty tree and a scan cut short by an exception
\* included, has a summary of exactly the six totals
C24_SummaryEmptyOnBadRoot ==
    pc = "returned" =>
        IF root.kind # "dir" THEN DOMAIN results["summary"] = {}
        ELSE DOMAIN results["summary"] = SixTotals

\* run_scan has returned for a root that is a regular file
C24_Witness ==
    /\ pc = "returned"
    /\ root.kind = "file"
    /\ error # ""
    /\ DOMAIN results["summary"] = {}

\* C25: once the classification of a leaf has raised, the leaves classified
\* before it keep their records, neither it nor any later leaf of leaf_dirs
\* gets a record, and run_scan goes on to the summary, computed from the
\* lists as they are, and returns
C25_ExceptionAbortsRemainingLeaves ==
    error = "Error scanning" =>
        /\ pc \in {"summary", "returned"}
        /\ \A j \in 1..Len(leaf_dirs) :
              IF j < idx
                THEN ListsOf(leaf_dirs[j]) =
                        {Verdict(GetFileTypes(listing[leaf_dirs[j]])).list} \ {""}
                ELSE RecordsOf(leaf_dirs[j]) = {}
        /\ pc = "returned" =>
              /\ results["summary"]["total_scanned_folders"] = TotalRecords
              /\ results["summary"]["total_empty_folders"] = Len(results["empty_folders"])
              /\ results["summary"]["total_valid_folders"] = Len(results["valid_folders"])

\* run_scan has returned from a scan that filed one leaf, then raised on the
\* next with a leaf still to come
C25_Witness ==
    /\ pc = "returned"
    /\ error = "Error scanning"
    /\ TotalRecords = 1
    /\ idx = 2
    /\ Len(leaf_dirs) = 3

(***************************************************************************)
(* The temporary directory of main's ZIP upload over several uploads.      *)
(***************************************************************************)
\* a run of main's ZIP upload has just been made
MainUploaded == zip'.uploads = zip.uploads + 1 /\ zip'.last.flow = "main"

\* C26: main's ZIP upload makes its temporary directory only when the session
\* holds none, and otherwise extracts into the one the session holds, which
\* only "Clear ZIP contents" takes away; after an upload the directory holds
\* what it held before together with what was extracted from the archive, so
\* that it holds the union of the archives extracted since the last clear
C26_OneDirectoryAccumulates ==
    [][LET d == zip'.last.dir
       IN  /\ MainUploaded =>
                /\ zip'.temp_zip_dir = d
                /\ (zip.temp_zip_dir # 0 =>
                       /\ d = zip.temp_zip_dir
                       /\ DOMAIN tmp' = DOMAIN tmp
                       /\ tmp'[d].entries = tmp[d].entries \cup zip'.last.left)
                /\ (zip.temp_zip_dir = 0 =>
                       /\ d \notin DOMAIN tmp
                       /\ tmp'[d].entries = zip'.last.left)
           /\ (zip.temp_zip_dir # 0 /\ zip'.temp_zip_dir # zip.temp_zip_dir) =>
                /\ zip'.temp_zip_dir = 0
                /\ zip.last.flow = "main" /\ zip'.last.cleaned
                /\ zip.temp_zip_dir \notin DOMAIN tmp'
           /\ (zip'.temp_zip_dir # 0 => zip'.temp_zip_dir \in DOMAIN tmp')
      ]_vars

\* a second archive has been extracted into the directory of the first, and
\* the directory holds the entries of both
C26_Witness ==
    /\ zip.last.flow = "main" /\ zip.last.outcome = "ok"
    /\ zip.uploads = 2
    /\ zip.last.dir = 1 /\ zip.temp_zip_dir = 1
    /\ DOMAIN tmp = {1}
    /\ zip.last.left = {"b.json"}
    /\ tmp[1].entries = {"A/a.md", "b.json"}

(***************************************************************************)
(* The status indicators of the folder tabs.                               *)
(***************************************************************************)
\* C27: beside a record of a scan, display_folder_details shows 'Valid' when
\* the record's severity is none and 'Critical' otherwise, records of
\* severity medium included; it shows 'Issues' (or 'Unknown') for none
C27_StatusValidOrCritical ==
    (downloads.shown /\ downloads.raised = "") =>
        \A l \in CategoryLists :
            \A i \in 1..Len(downloads.status[l]) :
                LET folder == downloads.data[l][i]
                IN  /\ folder.severity \in {"none", "medium", "high"}
                    /\ downloads.status[l][i] =
                          IF folder.severity = "none" THEN "Valid" ELSE "Critical"

\* a folder of severity medium, one of severity high and a valid one shown
C27_Witness ==
    /\ downloads.shown /\ downloads.raised = ""
    /\ \E i \in 1..Len(downloads.status["folders_with_empty_files"]) :
          /\ downloads.data["folders_with_empty_files"][i].severity = "medium"
          /\ downloads.status["folders_with_empty_files"][i] = "Critical"
    /\ \E i \in 1..Len(downloads.status["valid_folders"]) :
          downloads.status["valid_folders"][i] = "Valid"

(***************************************************************************)
(* Hidden files in get_file_types of the dashboard.                        *)
(***************************************************************************)
\* .a, .a.md, .a.MD, .a.json, ..., and a.md
HiddenFileNames ==
    {n \in FileNames : StartsWith(n, DOT)} \cup {<<"a">> \o EXT_MD}

\* one folder with any files of these names
InitHidden ==
    /\ root = [kind |-> "dir", name |-> <<"d", "a", "t", "a">>]
    /\ tree = {<<>>}
    /\ listing \in [tree -> ListingsOver(HiddenFileNames, MaxFiles)]
    /\ unreadable = {}
    /\ Detector
    /\ BeyondIdle

SpecHidden == InitHidden /\ [][Next]_vars

\* the bucket the extension of a name calls for, "" for another extension
BucketOfExt(n) ==
    IF HasExt(n, EXT_JSON) THEN "json_files"
    ELSE IF HasExt(n, EXT_MD) THEN "md_files"
    ELSE IF HasExt(n, EXT_LOG) THEN "log_files"
    ELSE ""

\* the buckets of a record's files that hold the name
BucketsHolding(folder, n) == {k \in DOMAIN folder.files : n \in folder.files[k]}

\* the files of the folder are hidden ones of other extensions, at least one
OnlyOtherHidden(p) ==
    /\ listing[p] # NoFiles
    /\ \A n \in DOMAIN listing[p] : NameIsHidden(n) /\ BucketOfExt(n) = ""

\* C28: in a record of the dashboard's scan, a file whose name starts with
\* '.' is in a bucket only if it ends in .json, .md or .log (in any case of
\* letters), and then in the bucket of that extension, or in empty_files when
\* it has zero bytes; any other hidden file is in no bucket, zero-byte or
\* not, and a leaf that holds only such files is filed in empty_folders with
\* severity high
C28_HiddenFiles ==
    /\ \A l \in CategoryLists :
          \A i \in 1..Len(results[l]) :
              LET folder == results[l][i]
                  files == listing[folder.path]
              IN  \A n \in DOMAIN files :
                      NameIsHidden(n) =>
                          BucketsHolding(folder, n) =
                              IF BucketOfExt(n) = "" THEN {}
                              ELSE IF files[n] = 0 THEN {"empty_files"}
                              ELSE {BucketOfExt(n)}
    /\ \A p \in Range(classified) :
          OnlyOtherHidden(p) => FiledAs(p, "empty_folders", "high")

\* a leaf with only hidden files of other extensions, one of them of zero
\* bytes, has been filed as empty, and its record has no file in a bucket
C28_Witness ==
    \E p \in Range(classified) :
        /\ OnlyOtherHidden(p)
        /\ \E n \in DOMAIN listing[p] : listing[p][n] = 0
        /\ FiledAs(p, "empty_folders", "high")
        /\ \A i \in 1..Len(results["empty_folders"]) :
              \A k \in DOMAIN results["empty_folders"][i].files :
                  results["empty_folders"][i].files[k] = {}

(***************************************************************************)
(* Scans of roots given as '.', '..', './data', '.data' and 'data'.        *)
(***************************************************************************)
CUR_DIR == <<".">>
PARENT_DIR == <<".", ".">>
DOT_DATA == <<".", "d", "a", "t", "a">>

\* the paths a scan root is given by
GivenRoots == {CUR_DIR, PARENT_DIR, DOT_DATA, <<".", "/", "d", "a", "t", "a">>,
               <<"d", "a", "t", "a">>}

InitRoots ==
    /\ root \in [kind : {"dir"}, name : GivenRoots]
    /\ tree \in TreesUpTo(MaxDirs)
    /\ listing \in [tree -> TreeListings]
    /\ unreadable = {}
    /\ Detector
    /\ BeyondIdle

SpecRoots == InitRoots /\ [][Next]_vars

\* the leaves below a root that is walked: no directory on the way down is
\* hidden, and every subdirectory is
LeavesBelow ==
    {p \in tree : /\ \A i \in 1..Len(p) : ~NameIsHidden(p[i])
                  /\ \A q \in Children(tree, p) : NameIsHidden(BaseName(q))}

\* C29: a completed run_scan of a root given as '..' or '.data' has no record
\* and a summary whose six totals are 0; one of a root given as '.' has
\* classified the leaves below it as for any other root, each with the
\* record its files call for
C29_DotRoots ==
    ScanCompleted =>
        /\ root.name \in {PARENT_DIR, DOT_DATA} =>
              /\ \A l \in CategoryLists : results[l] = <<>>
              /\ classified = <<>>
              /\ DOMAIN results["summary"] = SixTotals
              /\ \A k \in SixTotals : results["summary"][k] = 0
        /\ root.name = CUR_DIR =>
              /\ Range(classified) = LeavesBelow
              /\ \A p \in LeavesBelow :
                    LET v == Verdict(GetFileTypes(listing[p]))
                    IN  IF v.list = "" THEN RecordsOf(p) = {}
                        ELSE FiledAs(p, v.list, v.severity)
              /\ results["summary"]["total_scanned_folders"] = TotalRecords

\* a scan of '..' over a tree with a valid folder has returned, with no record
C29_Witness ==
    /\ ScanCompleted
    /\ root.name = PARENT_DIR
    /\ \E p \in LeavesBelow : Verdict(GetFileTypes(listing[p])).list = "valid_folders"
    /\ TotalRecords = 0

(***************************************************************************)
(* The walks of the two detector classes over one tree.                    *)
(***************************************************************************)
\* what the folders hold: nothing, or a markdown file
WalkerListings == {NoFiles, (<<"a">> \o EXT_MD) :> 10}

InitWalkers ==
    /\ root = [kind |-> "dir", name |-> <<"d", "a", "t", "a">>]
    /\ tree \in TreesUpTo(MaxDirs)
    /\ listing \in [tree -> WalkerListings]
    /\ unreadable = {}
    /\ Detector
    /\ BeyondIdle

NextWalkers == RunScan \/ ScanFolder \/ ScanLeaf \/ GenerateSummary \/ CliRunWhole

SpecWalkers == InitWalkers /\ [][NextWalkers]_vars

\* the directories both walks come to that have subdirectories, all hidden
OnlyHiddenBelow ==
    {p \in tree : /\ Visited(p)
                  /\ Children(tree, p) # {}
                  /\ \A q \in Children(tree, p) : NameIsHidden(BaseName(q))}

\* q is p or a directory below p
AtOrBelow(q, p) == Len(q) >= Len(p) /\ SubSeq(q, 1, Len(p)) = p

\* C30: once both detectors have scanned, a directory whose subdirectories
\* are all hidden has been classified by StreamlitMissingFilesDetector, as
\* a leaf, with the record its files call for, while MissingFilesDetector
\* has classified neither it nor any directory below it and reports none
C30_WalkersDisagree ==
    (ScanCompleted /\ CliScanned) =>
        \A p \in OnlyHiddenBelow :
            /\ p \in Range(classified)
            /\ LET v == Verdict(GetFileTypes(listing[p]))
               IN  IF v.list = "" THEN RecordsOf(p) = {}
                   ELSE FiledAs(p, v.list, v.severity)
            /\ \A q \in tree :
                  AtOrBelow(q, p) =>
                      /\ q \notin Range(cli.classified)
                      /\ \A l \in {"empty_folders", "json_only_folders"} :
                            \A i \in 1..Len(cli.report[l]) :
                                cli.report[l][i].path # <<root.name>> \o q

\* both have scanned a tree where a folder with a markdown file has one
\* subdirectory, hidden and empty: the dashboard has filed the folder as valid
C30_Witness ==
    /\ ScanCompleted /\ CliScanned
    /\ cli.runs >= 1
    /\ \E p \in OnlyHiddenBelow :
          /\ Len(p) = 1
          /\ FiledAs(p, "valid_folders", "none")
          /\ \E q \in Children(tree, p) : listing[q] = NoFiles
          /\ p \notin Range(cli.classified)

====
